---------------------------- MODULE Spec2Model ----------------------------
(***************************************************************************)
(* Invoice reconciliation and composite risk scoring (ml-service).         *)
(*                                                                         *)
(* The model covers InvoiceMLService (invoice_ml.py: three-way match,      *)
(* duplicate detection, point-based fraud score), FraudDetectionService    *)
(* (fraud_detection.py: weighted anomaly score) and the full-process       *)
(* route of app.py.                                                        *)
(*                                                                         *)
(* Conventions.                                                            *)
(*  - A JSON/Python value is a record [t, s, n]: t is the Python type       *)
(*    ("absent" for a key the dict does not have, "null" for None, "str",  *)
(*    "int", "float"), s the text of a string, n the number.               *)
(*  - A string is a sequence of atoms; an atom is the blank " " or a word. *)
(*    lower(), strip() and split() are computed on that sequence.          *)
(*  - Amounts are counted in cents; an "int" amount is a whole number of   *)
(*    currency units written without a fraction (5000), a "float" amount   *)
(*    the same number written as a float (5000.0).                         *)
(*  - Python floats that the code divides or multiplies are exact          *)
(*    rationals [n, d] here (d > 0, lowest terms); binary rounding is not  *)
(*    modelled.                                                            *)
(*  - sha256 is taken to be injective on the canonical strings it is       *)
(*    given: a hash is modelled by the serialized text itself.             *)
(***************************************************************************)
EXTENDS Integers, Sequences, FiniteSets, TLC

VARIABLES
    invoice_data,        \* request: the invoice as InvoiceMLService gets it
    po_data,             \* request: purchase order (NoDoc when omitted)
    grn_data,            \* request: goods receipt note (NoDoc when omitted)
    tolerance,           \* request: variance tolerance
    historical_invoices, \* request: historical invoices of detect_duplicate
    image,               \* request: the image given to the full-process route
    gl_accounts,         \* request: GL accounts supplied
    tax_rules,           \* request: tax rules supplied
    fds_invoice,         \* request: the invoice as FraudDetectionService gets it
    historical_data,     \* request: historical invoices of analyze_invoice
    vendor_data,         \* request: vendor profile (NoVendor when omitted)
    batch_invoices,      \* request: the invoices given to batch_analyze
    clock,               \* the clock reading (datetime.now()), in hours
    match_result,        \* last result of perform_three_way_match
    duplicate_result,    \* last result of detect_duplicate
    fraud_result,        \* last result of detect_fraud
    full_result,         \* last result of invoice_full_process
    analysis,            \* last result of analyze_invoice on fds_invoice
    other_analysis,      \* last result of analyze_invoice on another invoice
    batch_result,        \* last result of batch_analyze
    train_result,        \* last result of train_model
    predict_result,      \* last result of predict_fraud
    ims,                 \* InvoiceMLService instance state
    fds,                 \* FraudDetectionService instance state
    last_call            \* the operation called last, and whether it had run before

requests == <<invoice_data, po_data, grn_data, tolerance, historical_invoices, image,
              gl_accounts, tax_rules, fds_invoice, historical_data, vendor_data,
              batch_invoices, clock>>
results == <<match_result, duplicate_result, fraud_result, full_result, analysis,
             other_analysis, batch_result, train_result, predict_result>>
vars == <<requests, results, ims, fds, last_call>>

-----------------------------------------------------------------------------
(* Bounds of the model *)

MaxInvLines == 2
MaxHist == 2
MaxBatch == 3

-----------------------------------------------------------------------------
(* Exact rationals *)

Abs(x) == IF x < 0 THEN -x ELSE x

RECURSIVE GCD(_, _)
GCD(a, b) == IF b = 0 THEN a ELSE GCD(b, a % b)

\* n/d once the common divisor g is known
Lowest(n, d, g) ==
    IF d < 0 THEN [n |-> (-n) \div g, d |-> (-d) \div g]
    ELSE [n |-> n \div g, d |-> d \div g]

Rat(n, d) == Lowest(n, d, GCD(Abs(n), Abs(d)))

R(n) == [n |-> n, d |-> 1]
RAdd(a, b) == Rat(a.n * b.d + b.n * a.d, a.d * b.d)
RSub(a, b) == Rat(a.n * b.d - b.n * a.d, a.d * b.d)
RMul(a, b) == Rat(a.n * b.n, a.d * b.d)
RDiv(a, b) == Rat(a.n * b.d, a.d * b.n)
RLt(a, b) == a.n * b.d < b.n * a.d
RLe(a, b) == a.n * b.d <= b.n * a.d
RMin(a, b) == IF RLe(a, b) THEN a ELSE b
RMax(a, b) == IF RLe(a, b) THEN b ELSE a

-----------------------------------------------------------------------------
(* Python values and dict access *)

Absent == [t |-> "absent", s |-> <<>>, n |-> 0]
Null == [t |-> "null", s |-> <<>>, n |-> 0]
Str(s) == [t |-> "str", s |-> s, n |-> 0]
IntV(n) == [t |-> "int", s |-> <<>>, n |-> n]
FloatV(n) == [t |-> "float", s |-> <<>>, n |-> n]
True == [t |-> "bool", s |-> <<>>, n |-> 1]

IsNum(v) == v.t \in {"int", "float"}

\* d.get(k): None when the key is absent
Get(v) == IF v.t = "absent" THEN Null ELSE v

\* d.get(k, default)
GetD(v, default) == IF v.t = "absent" THEN default ELSE v

\* Python ==: numbers compare by value across int and float
PyEq(a, b) == IF IsNum(a) /\ IsNum(b) THEN a.n = b.n ELSE a = b

\* Python truthiness
Truthy(v) ==
    CASE v.t = "str" -> v.s # <<>>
      [] v.t = "iso" -> TRUE
      [] v.t = "bool" -> v.n = 1
      [] IsNum(v) -> v.n # 0
      [] OTHER -> FALSE

-----------------------------------------------------------------------------
(* Strings *)

LowerAtom(a) ==
    CASE a = "Steel" -> "steel"
      [] a = "Bolt" -> "bolt"
      [] a = "Acme" -> "acme"
      [] a = "Corp" -> "corp"
      [] a = "INV-1" -> "inv-1"
      [] a = "Faketest" -> "faketest"
      [] OTHER -> a

Lower(s) == [i \in 1..Len(s) |-> LowerAtom(s[i])]

RECURSIVE LStrip(_)
LStrip(s) == IF s # <<>> /\ Head(s) = " " THEN LStrip(Tail(s)) ELSE s

RECURSIVE RStrip(_)
RStrip(s) ==
    IF s # <<>> /\ s[Len(s)] = " " THEN RStrip(SubSeq(s, 1, Len(s) - 1)) ELSE s

Strip(s) == RStrip(LStrip(s))

\* set(s.split()): the maximal runs of non-blank atoms
Tokens(s) ==
    { SubSeq(s, i, j) : <<i, j>> \in
        { p \in (1..Len(s)) \X (1..Len(s)) :
            /\ p[1] <= p[2]
            /\ \A k \in p[1]..p[2] : s[k] # " "
            /\ (p[1] = 1 \/ s[p[1] - 1] = " ")
            /\ (p[2] = Len(s) \/ s[p[2] + 1] = " ") } }

Jaccard(t1, t2) == Rat(Cardinality(t1 \cap t2), Cardinality(t1 \cup t2))

MatchThreshold == Rat(6, 10)


-----------------------------------------------------------------------------
(* InvoiceMLService: three-way match *)

\* str(x) of a header field
PyStr(v) ==
    CASE v.t = "str" -> v.s
      [] v.t = "null" -> <<"None">>
      [] OTHER -> <<ToString(v.n)>>

\* _match_po_number
MatchPoNumber(inv, po) ==
    LET inv_po == Strip(PyStr(GetD(inv.po_number, Str(<<>>))))
        po_num == Strip(PyStr(GetD(po.po_number, Str(<<>>))))
        matched == inv_po = po_num
    IN  [matched |-> matched, confidence |-> IF matched THEN R(1) ELSE R(0)]

\* _match_vendor; .lower() on a value that is not a string raises
MatchVendorRaises(inv, po) ==
    \/ GetD(inv.vendor_name, Str(<<>>)).t # "str"
    \/ GetD(po.vendor_name, Str(<<>>)).t # "str"

\* the token-overlap branch of _match_vendor
VendorTokensMatch(inv_tokens, po_tokens) ==
    IF inv_tokens # {} /\ po_tokens # {}
    THEN [matched |-> RLt(MatchThreshold, Jaccard(inv_tokens, po_tokens)),
          confidence |-> Jaccard(inv_tokens, po_tokens)]
    ELSE [matched |-> FALSE, confidence |-> R(0)]

\* _match_vendor on the two normalised names
VendorNamesMatch(inv_vendor, po_vendor) ==
    IF inv_vendor = po_vendor
    THEN [matched |-> TRUE, confidence |-> R(1)]
    ELSE VendorTokensMatch(Tokens(inv_vendor), Tokens(po_vendor))

MatchVendor(inv, po) ==
    VendorNamesMatch(Strip(Lower(GetD(inv.vendor_name, Str(<<>>)).s)),
                     Strip(Lower(GetD(po.vendor_name, Str(<<>>)).s)))

\* variant: a similarity of exactly the threshold counts as a match
TokensMatchAtLeast(tokens1, tokens2) ==
    IF tokens1 # {} /\ tokens2 # {}
    THEN RLe(MatchThreshold, Jaccard(tokens1, tokens2))
    ELSE FALSE

\* the token-overlap branch of _descriptions_match
TokensMatch(tokens1, tokens2) ==
    IF tokens1 # {} /\ tokens2 # {}
    THEN RLt(MatchThreshold, Jaccard(tokens1, tokens2))
    ELSE FALSE

\* _descriptions_match on the two normalised descriptions
NormalizedMatch(d1, d2) == IF d1 = d2 THEN TRUE ELSE TokensMatch(Tokens(d1), Tokens(d2))

\* _descriptions_match
DescriptionsMatch(desc1, desc2) ==
    IF ~Truthy(desc1) \/ ~Truthy(desc2)
    THEN FALSE
    ELSE NormalizedMatch(Strip(Lower(desc1.s)), Strip(Lower(desc2.s)))

\* variant: the loop runs on to the last of the matching lines
Last(hits) == IF hits = {} THEN 0 ELSE CHOOSE j \in hits : \A k \in hits : j >= k

\* the least index of a set of line indexes (0: the set is empty)
First(hits) == IF hits = {} THEN 0 ELSE CHOOSE j \in hits : \A k \in hits : j <= k

\* the line the "for ... if match ... break" loops stop at (0: none)
FirstMatch(desc, lines) ==
    First({ j \in 1..Len(lines) : DescriptionsMatch(desc, lines[j].description) })

\* abs(a - b) / b, computed only when b > 0
Variance(a, b) == IF b > 0 THEN Rat(Abs(a - b), b) ELSE R(0)

\* variant: the per-line score without the 30-point cap on each penalty
LineScoreUncapped(price_variance, quantity_variance) ==
    RMax(RSub(RSub(R(100), RMul(price_variance, R(100))),
              RMul(quantity_variance, R(100))), R(0))

\* the per-line score of _match_line_items
LineScore(price_variance, quantity_variance) ==
    LET p == IF RLt(R(0), price_variance)
             THEN RMin(RMul(price_variance, R(100)), R(30)) ELSE R(0)
        q == IF RLt(R(0), quantity_variance)
             THEN RMin(RMul(quantity_variance, R(100)), R(30)) ELSE R(0)
    IN  RMax(RSub(RSub(R(100), p), q), R(0))

\* best_match once the variances are computed
ScoredLine(inv_line, po_qty, po_price, grn_qty, price_variance, quantity_variance) ==
    [description |-> inv_line.description,
     match_score |-> LineScore(price_variance, quantity_variance),
     invoice_qty |-> inv_line.quantity,
     invoice_price |-> inv_line.unit_price,
     po_qty |-> po_qty,
     po_price |-> po_price,
     grn_qty |-> grn_qty,
     price_variance |-> price_variance,
     quantity_variance |-> quantity_variance]

\* best_match for the quantities and price found (0 where no line was found)
BestMatch(inv_line, po_qty, po_price, grn_qty) ==
    ScoredLine(inv_line, po_qty, po_price, grn_qty,
               Variance(inv_line.unit_price, po_price),
               Variance(inv_line.quantity, grn_qty))

\* best_match given the PO line j and the GRN line k found (0: none)
LineEntry(inv_line, po_lines, grn_lines, j, k) ==
    BestMatch(inv_line,
              IF j = 0 THEN 0 ELSE po_lines[j].quantity,
              IF j = 0 THEN 0 ELSE po_lines[j].unit_price,
              IF k = 0 THEN 0 ELSE grn_lines[k].quantity)

\* the GRN lines are searched only inside the PO match
WithPoLine(inv_line, po_lines, grn_lines, j) ==
    LineEntry(inv_line, po_lines, grn_lines, j,
              IF j = 0 THEN 0 ELSE FirstMatch(inv_line.description, grn_lines))

\* one iteration of the loop of _match_line_items
MatchLine(inv_line, po_lines, grn_lines) ==
    WithPoLine(inv_line, po_lines, grn_lines, FirstMatch(inv_line.description, po_lines))

\* _match_line_items
MatchLineItems(inv_lines, po_lines, grn_lines) ==
    [i \in 1..Len(inv_lines) |-> MatchLine(inv_lines[i], po_lines, grn_lines)]

RECURSIVE SumScores(_)
SumScores(lms) ==
    IF lms = <<>> THEN R(0) ELSE RAdd(Head(lms).match_score, SumScores(Tail(lms)))

\* sum(...) / len(line_matches) if line_matches else 0
MeanLineScore(lms) ==
    IF lms = <<>> THEN R(0) ELSE RDiv(SumScores(lms), R(Len(lms)))

HeaderDisc(type) ==
    [type |-> type, severity |-> "high", line_item |-> Null, variance_pct |-> R(0)]

LineDisc(type, lm, v) ==
    [type |-> type, severity |-> "medium", line_item |-> lm.description, variance_pct |-> v]

\* variant: a variance equal to the tolerance is surfaced as well
AtOrOverTolerance(variance, tol) == RLe(tol, variance)

\* the test that surfaces a variance as a discrepancy
OverTolerance(variance, tol) == RLt(tol, variance)

\* the "Check for quantity/price variances" loop
RECURSIVE VarianceDiscs(_, _)
VarianceDiscs(lms, tol) ==
    IF lms = <<>> THEN <<>>
    ELSE LET lm == Head(lms)
         IN  (IF OverTolerance(lm.price_variance, tol)
              THEN <<LineDisc("price_variance", lm, lm.price_variance)>> ELSE <<>>)
             \o (IF OverTolerance(lm.quantity_variance, tol)
                 THEN <<LineDisc("quantity_variance", lm, lm.quantity_variance)>> ELSE <<>>)
             \o VarianceDiscs(Tail(lms), tol)

PoPenalty == 20
VendorPenalty == 15
MatchedMinScore == 90

\* match_score * 0.3 + line_score * 0.7
OverallScore(header_score, line_score) ==
    RAdd(RMul(header_score, Rat(3, 10)), RMul(line_score, Rat(7, 10)))

\* variant: the final determination looks at the score alone
OverallMatchByScore(po_matched, vendor_matched, score) == ~RLt(score, R(MatchedMinScore))

\* overall_match after the "Final match determination" block
OverallMatch(po_matched, vendor_matched, score) ==
    po_matched /\ vendor_matched /\ ~RLt(score, R(MatchedMinScore))

NoMatchResult ==
    [called |-> FALSE, error |-> "", overall_match |-> FALSE, match_score |-> R(0),
     discrepancies |-> <<>>, po_match |-> FALSE, line_matches |-> <<>>, status |-> ""]

\* match_score after the two header checks
HeaderScore(po_matched, vendor_matched) ==
    100 - (IF po_matched THEN 0 ELSE PoPenalty) - (IF vendor_matched THEN 0 ELSE VendorPenalty)

\* the discrepancies, in the order the checks append them
Discrepancies(po_matched, vendor_matched, line_matches, tol) ==
    (IF po_matched THEN <<>> ELSE <<HeaderDisc("po_number_mismatch")>>)
    \o (IF vendor_matched THEN <<>> ELSE <<HeaderDisc("vendor_mismatch")>>)
    \o VarianceDiscs(line_matches, tol)

\* match_results as returned
MatchResults(po_matched, vendor_matched, line_matches, score, discs) ==
    [called |-> TRUE, error |-> "",
     overall_match |-> OverallMatch(po_matched, vendor_matched, score),
     match_score |-> score, discrepancies |-> discs, po_match |-> po_matched,
     line_matches |-> line_matches,
     status |-> IF OverallMatch(po_matched, vendor_matched, score)
                THEN "matched" ELSE "exception"]

\* the part of perform_three_way_match after the three checks
Aggregate(po_matched, vendor_matched, line_matches, tol) ==
    MatchResults(po_matched, vendor_matched, line_matches,
                 OverallScore(R(HeaderScore(po_matched, vendor_matched)),
                              MeanLineScore(line_matches)),
                 Discrepancies(po_matched, vendor_matched, line_matches, tol))

\* perform_three_way_match
PerformThreeWayMatch(inv, po, grn, tol) ==
    IF MatchVendorRaises(inv, po)
    THEN [NoMatchResult EXCEPT !.called = TRUE, !.error = "AttributeError"]
    ELSE Aggregate(MatchPoNumber(inv, po).matched, MatchVendor(inv, po).matched,
                   MatchLineItems(inv.line_items, po.line_items, grn.line_items), tol)

-----------------------------------------------------------------------------
(* InvoiceMLService: duplicate detection *)

\* the text json.dumps writes for one value
JsonDumps(v) ==
    CASE v.t = "str" -> <<"\"">> \o v.s \o <<"\"">>
      [] v.t = "int" -> <<ToString(v.n \div 100)>>
      [] v.t = "float" ->
            <<ToString(v.n \div 100), ".", ToString((v.n % 100) \div 10)>>
            \o (IF v.n % 10 = 0 THEN <<>> ELSE <<ToString(v.n % 10)>>)
      [] OTHER -> <<"null">>

\* _calculate_invoice_hash: the canonical string, keys sorted
CalculateInvoiceHash(inv) ==
    <<"invoice_date", JsonDumps(GetD(inv.invoice_date, Str(<<>>))),
      "invoice_number", JsonDumps(GetD(inv.invoice_number, Str(<<>>))),
      "total_amount", JsonDumps(GetD(inv.total_amount, IntV(0))),
      "vendor_name", JsonDumps(GetD(inv.vendor_name, Str(<<>>)))>>

\* _dates_close: the placeholder body returns True
DatesClose(date1, date2, days) == TRUE

NumberPoints == 40
VendorPoints == 20
AmountPoints == 30
DatePoints == 10
DateWindowDays == 7

\* the field-based part of the loop body: [score, matched_fields]
FieldScore(inv, hist) ==
    LET num == PyEq(Get(inv.invoice_number), Get(hist.invoice_number))
        ven == PyEq(Get(inv.vendor_name), Get(hist.vendor_name))
        amt == ven /\ PyEq(Get(inv.total_amount), Get(hist.total_amount))
        dat == amt /\ DatesClose(Get(inv.invoice_date), Get(hist.invoice_date),
                                 DateWindowDays)
    IN  [score |-> (IF num THEN NumberPoints ELSE 0) + (IF ven THEN VendorPoints ELSE 0)
                   + (IF amt THEN AmountPoints ELSE 0) + (IF dat THEN DatePoints ELSE 0),
         matched_fields |-> (IF num THEN <<"invoice_number">> ELSE <<>>)
                            \o (IF ven THEN <<"vendor">> ELSE <<>>)
                            \o (IF amt THEN <<"amount">> ELSE <<>>)
                            \o (IF dat THEN <<"date">> ELSE <<>>)]

\* variant: the score compared with the threshold itself, not with threshold * 100
ReachesFraction(score, svc) ==
    RLe(svc.fraud_indicators.duplicate_threshold, R(score))

\* match_score >= duplicate_threshold * 100
ReachesThreshold(score, svc) ==
    RLe(RMul(svc.fraud_indicators.duplicate_threshold, R(100)), R(score))

\* one iteration of the loop of detect_duplicate: the entries it appends
DuplicateEntries(inv, hist, svc) ==
    IF CalculateInvoiceHash(inv) = CalculateInvoiceHash(hist)
    THEN <<[invoice_id |-> Get(hist.id), match_type |-> "exact_hash",
            confidence |-> R(1), matched_fields |-> <<"all">>]>>
    ELSE LET f == FieldScore(inv, hist)
         IN  IF ReachesThreshold(f.score, svc)
             THEN <<[invoice_id |-> Get(hist.id), match_type |-> "field_based",
                     confidence |-> Rat(f.score, 100),
                     matched_fields |-> f.matched_fields]>>
             ELSE <<>>

RECURSIVE DuplicateList(_, _, _)
DuplicateList(inv, hists, svc) ==
    IF hists = <<>> THEN <<>>
    ELSE DuplicateEntries(inv, Head(hists), svc) \o DuplicateList(inv, Tail(hists), svc)

NoDuplicateResult ==
    [called |-> FALSE, error |-> "", is_duplicate |-> FALSE, duplicate_count |-> 0,
     duplicates |-> <<>>, recommendation |-> ""]

\* detect_duplicate
DetectDuplicate(inv, hists, svc) ==
    LET duplicates == DuplicateList(inv, hists, svc)
        is_duplicate == Len(duplicates) > 0
    IN  [called |-> TRUE, error |-> "", is_duplicate |-> is_duplicate,
         duplicate_count |-> Len(duplicates), duplicates |-> duplicates,
         recommendation |-> IF is_duplicate THEN "reject" ELSE "approve"]

-----------------------------------------------------------------------------
(* InvoiceMLService: point-based fraud score *)

\* float(re.sub(r'[^\d.]', '', total)) for the amount strings of the model;
\* -1 stands for the ValueError float('') raises
ParseAmountAtom(a) ==
    CASE a = "$5,000.00" -> 500000
      [] a = "$120.50" -> 12050
      [] OTHER -> -1

ParseAmount(s) == IF Len(s) = 1 THEN ParseAmountAtom(s[1]) ELSE -1

\* "keyword in vendor" on the lower-cased vendor name
AtomContains(a, kw) ==
    \/ a = kw
    \/ a = "faketest" /\ kw \in {"fake", "test"}
    \/ a = "contemporary" /\ kw = "temp"

Contains(s, kw) == \E i \in 1..Len(s) : AtomContains(s[i], kw)

\* len() of a string, in characters
AtomLen(a) ==
    CASE a = " " -> 1
      [] a = "A1" -> 2
      [] OTHER -> 5

RECURSIVE StrLen(_)
StrLen(s) == IF s = <<>> THEN 0 ELSE AtomLen(Head(s)) + StrLen(Tail(s))

CriticalFields == <<"invoice_number", "vendor_name", "total_amount", "invoice_date">>

Field(inv, f) ==
    CASE f = "invoice_number" -> inv.invoice_number
      [] f = "vendor_name" -> inv.vendor_name
      [] f = "total_amount" -> inv.total_amount
      [] f = "invoice_date" -> inv.invoice_date

\* [f for f in critical_fields if not invoice_data.get(f)]
MissingFields(inv) ==
    SelectSeq(CriticalFields, LAMBDA f : ~Truthy(Get(Field(inv, f))))

SuspiciousAmountPoints == 25
RoundAmountPoints == 10
SuspiciousVendorPoints == 30
MissingFieldPoints == 15
BankChangePoints == 20
UnusualFormatPoints == 10
MaxFraudScore == 100
HighRiskScore == 50
MediumRiskScore == 25
\* 100 currency units, in cents
RoundAmountFloor == 10000
RoundAmountStep == 10000
ShortNumberLen == 3

NoFraudResult ==
    [called |-> FALSE, error |-> "", fraud_score |-> 0, risk_level |-> "",
     flags |-> <<>>, recommendation |-> ""]

\* the value "total" holds after the isinstance(total, str) conversion
FraudTotal(inv) ==
    LET total == GetD(inv.total_amount, IntV(0))
    IN  IF total.t = "str" THEN FloatV(ParseAmount(total.s)) ELSE total

\* the statements of detect_fraud that raise
DetectFraudError(inv) ==
    LET total == GetD(inv.total_amount, IntV(0))
    IN  IF total.t = "str" /\ ParseAmount(total.s) < 0 THEN "ValueError"
        ELSE IF ~IsNum(FraudTotal(inv)) THEN "TypeError"
        ELSE IF GetD(inv.vendor_name, Str(<<>>)).t # "str" THEN "AttributeError"
        ELSE ""

\* variant: the accumulated points returned as they are
UncappedScore(fraud_score) == fraud_score

\* the cap applied to the returned score
CapScore(fraud_score) == IF fraud_score < MaxFraudScore THEN fraud_score ELSE MaxFraudScore

\* detect_fraud
DetectFraud(inv, svc) ==
    IF DetectFraudError(inv) # ""
    THEN [NoFraudResult EXCEPT !.called = TRUE, !.error = DetectFraudError(inv)]
    ELSE
    LET total == FraudTotal(inv)
        suspicious_amount == \E i \in 1..Len(svc.fraud_indicators.suspicious_amounts) :
                                 svc.fraud_indicators.suspicious_amounts[i] = total.n
        round_amount == total.n > RoundAmountFloor /\ total.n % RoundAmountStep = 0
        vendor == Lower(GetD(inv.vendor_name, Str(<<>>)).s)
        hits == SelectSeq(svc.fraud_indicators.suspicious_vendors,
                          LAMBDA kw : Contains(vendor, kw))
        missing == MissingFields(inv)
        bank == Truthy(Get(inv.bank_account_changed))
        inv_num == GetD(inv.invoice_number, Str(<<>>))
        unusual == Truthy(inv_num) /\ StrLen(inv_num.s) < ShortNumberLen
        fraud_score == (IF suspicious_amount THEN SuspiciousAmountPoints ELSE 0)
                       + (IF round_amount THEN RoundAmountPoints ELSE 0)
                       + SuspiciousVendorPoints * Len(hits)
                       + MissingFieldPoints * Len(missing)
                       + (IF bank THEN BankChangePoints ELSE 0)
                       + (IF unusual THEN UnusualFormatPoints ELSE 0)
        flags == (IF suspicious_amount THEN <<"suspicious_amount">> ELSE <<>>)
                 \o (IF round_amount THEN <<"round_amount">> ELSE <<>>)
                 \o [i \in 1..Len(hits) |-> "suspicious_vendor"]
                 \o (IF missing # <<>> THEN <<"missing_fields">> ELSE <<>>)
                 \o (IF bank THEN <<"bank_account_change">> ELSE <<>>)
                 \o (IF unusual THEN <<"unusual_invoice_format">> ELSE <<>>)
    IN  [called |-> TRUE, error |-> "", fraud_score |-> CapScore(fraud_score),
         risk_level |-> IF fraud_score >= HighRiskScore THEN "high"
                        ELSE IF fraud_score >= MediumRiskScore THEN "medium" ELSE "low",
         flags |-> flags,
         recommendation |-> IF fraud_score >= MediumRiskScore
                            THEN "manual_review" ELSE "auto_process"]

-----------------------------------------------------------------------------
(* app.py: invoice_full_process *)

\* a document the request does not carry (data.get(...) is None)
NoDoc == [present |-> FALSE, po_number |-> Absent, vendor_name |-> Absent,
          line_items |-> <<>>]

NoFullResult ==
    [called |-> FALSE, http |-> 0, error |-> "", matching |-> NoMatchResult,
     duplicate_check |-> NoDuplicateResult, fraud_detection |-> NoFraudResult,
     gl_coding |-> FALSE, tax_validation |-> FALSE, recommendation |-> ""]

FraudReviewScore == 25

\* the "Overall recommendation" block; .get on a stage that is still None raises
Recommendation(matching, duplicate_check, fraud) ==
    LET r1 == IF fraud.fraud_score >= FraudReviewScore THEN "manual_review"
              ELSE "auto_approve"
        r2 == IF duplicate_check.is_duplicate THEN "reject" ELSE r1
        r3 == IF matching.status = "exception" THEN "manual_review" ELSE r2
    IN  IF ~duplicate_check.called \/ ~matching.called THEN "AttributeError" ELSE r3

\* the response once the stages have run
FullResponse(matching, duplicate_check, fraud, rec, gl_coding, tax_validation) ==
    IF rec = "AttributeError"
    THEN [NoFullResult EXCEPT !.called = TRUE, !.http = 500, !.error = rec]
    ELSE [called |-> TRUE, http |-> 200, error |-> "", matching |-> matching,
          duplicate_check |-> duplicate_check, fraud_detection |-> fraud,
          gl_coding |-> gl_coding, tax_validation |-> tax_validation,
          recommendation |-> rec]

\* Step 7 of invoice_full_process, on the results of the stages before it
Recommend(matching, duplicate_check, fraud, gl_coding, tax_validation) ==
    FullResponse(matching, duplicate_check, fraud,
                 Recommendation(matching, duplicate_check, fraud),
                 gl_coding, tax_validation)

\* invoice_full_process; image is "none", "unreadable" (OCR fails) or "ok"
InvoiceFullProcess(img, inv, po, grn, tol, hists, gl, tax, svc) ==
    IF img = "none"
    THEN [NoFullResult EXCEPT !.called = TRUE, !.http = 400, !.error = "No image provided"]
    ELSE IF img = "unreadable"
    THEN [NoFullResult EXCEPT !.called = TRUE, !.http = 500,
                              !.error = "OCR processing failed"]
    ELSE Recommend(IF po.present /\ grn.present
                   THEN PerformThreeWayMatch(inv, po, grn, tol) ELSE NoMatchResult,
                   IF hists # <<>>
                   THEN DetectDuplicate(inv, hists, svc) ELSE NoDuplicateResult,
                   DetectFraud(inv, svc),
                   gl /\ inv.line_items # <<>>,
                   tax)

-----------------------------------------------------------------------------
(* FraudDetectionService: the evaluators of analyze_invoice *)
(* Times are whole hours since a Monday 00:00; Iso(h) is a well-formed ISO  *)
(* string for hour h, any other string makes datetime.fromisoformat raise.  *)

HoursPerDay == 24
\* a well-formed ISO timestamp: the whole hours since the Monday 00:00 the model
\* counts from, and the minutes past the hour
IsoAt(h, m) == [t |-> "iso", s |-> <<>>, n |-> h, min |-> m]
Iso(h) == IsoAt(h, 0)

\* timedelta.days: whole days, rounded down
Days(hours) == hours \div HoursPerDay
Weekday(h) == (h \div HoursPerDay) % 7
Hour(h) == h % HoursPerDay

\* a or b
Or(a, b) == IF Truthy(a) THEN a ELSE b

\* "if isinstance(x, str): x = datetime.fromisoformat(...)" followed by a
\* datetime method: raises unless x is a well-formed ISO string
DateRaises(v) == v.t # "iso"

\* invoice.get('vendor') or invoice.get('vendor_id')
VendorId(rec) == Or(Get(rec.vendor), Get(rec.vendor_id))

\* hist.get('_id') or hist.get('invoice_id')
RecordId(rec) == Or(Get(rec.id), Get(rec.invoice_id))

DuplicateConfidence == Rat(85, 100)
DuplicateListLimit == 5

\* one currency unit, in cents
OneUnit == 100

\* abs(hist_amount - invoice_amount) / max(hist_amount, 1) < 0.01
AmountsClose(hist_amount, invoice_amount) ==
    RLt(Rat(Abs(hist_amount - invoice_amount),
            IF hist_amount > OneUnit THEN hist_amount ELSE OneUnit),
        Rat(1, 100))

\* the match_reasons of one historical record
MatchReasons(invoice, hist) ==
    LET invoice_number == GetD(invoice.invoice_number, Str(<<>>))
        invoice_amount == GetD(invoice.total_amount, IntV(0))
        hist_amount == GetD(hist.total_amount, IntV(0))
        number == PyEq(Get(hist.invoice_number), invoice_number) /\ Truthy(invoice_number)
        amount == /\ Truthy(hist_amount)
                  /\ Truthy(invoice_amount)
                  /\ AmountsClose(hist_amount.n, invoice_amount.n)
        vendor == PyEq(VendorId(hist), VendorId(invoice)) /\ (number \/ amount)
    IN  (IF number THEN <<"same_invoice_number">> ELSE <<>>)
        \o (IF amount THEN <<"same_amount">> ELSE <<>>)
        \o (IF vendor THEN <<"same_vendor">> ELSE <<>>)

\* the historical record is skipped as being the invoice itself
IsSelf(invoice, hist) == PyEq(Get(hist.id), Get(invoice.id))

RECURSIVE PotentialDuplicates(_, _)
PotentialDuplicates(invoice, historical) ==
    IF historical = <<>> THEN <<>>
    ELSE LET hist == Head(historical)
             rest == PotentialDuplicates(invoice, Tail(historical))
         IN  IF ~IsSelf(invoice, hist) /\ MatchReasons(invoice, hist) # <<>>
             THEN <<[invoice_id |-> RecordId(hist),
                     match_reasons |-> MatchReasons(invoice, hist)]>> \o rest
             ELSE rest

\* _check_duplicate
CheckDuplicate(invoice, historical) ==
    LET duplicates == PotentialDuplicates(invoice, historical)
        is_duplicate == Len(duplicates) > 0
    IN  [is_duplicate |-> is_duplicate, duplicate_count |-> Len(duplicates),
         potential_duplicates |->
             SubSeq(duplicates, 1, IF Len(duplicates) < DuplicateListLimit
                                   THEN Len(duplicates) ELSE DuplicateListLimit),
         confidence |-> IF is_duplicate THEN DuplicateConfidence ELSE R(0),
         risk |-> IF is_duplicate THEN "high" ELSE "none"]

\* largest r with r * r <= n
RECURSIVE ISqrtIn(_, _, _)
ISqrtIn(n, lo, hi) ==
    IF lo >= hi THEN lo
    ELSE LET mid == (lo + hi + 1) \div 2
         IN  IF mid * mid <= n THEN ISqrtIn(n, mid, hi) ELSE ISqrtIn(n, lo, mid - 1)

ISqrt(n) == ISqrtIn(n, 0, IF n < 46340 THEN n ELSE 46340)

SqrtPrecision == 100

\* the square root of a rational: exact when it is rational, else rounded
\* down to 1/SqrtPrecision
RSqrt(q) ==
    LET m == q.n * q.d
    IN  IF ISqrt(m) * ISqrt(m) = m THEN Rat(ISqrt(m), q.d)
        ELSE Rat(ISqrt(m * SqrtPrecision * SqrtPrecision), q.d * SqrtPrecision)

RECURSIVE SeqSum(_)
SeqSum(xs) == IF xs = <<>> THEN 0 ELSE Head(xs) + SeqSum(Tail(xs))

RECURSIVE SeqGCD(_)
SeqGCD(xs) == IF xs = <<>> THEN 0 ELSE GCD(Head(xs), SeqGCD(Tail(xs)))

\* z-score and variance percent of "current" against "amounts" (np.mean,
\* np.std). Both are unchanged when every amount is divided by the same
\* number: the amounts are divided by their common divisor before squaring.
PriceStats(current, amounts) ==
    LET g == GCD(current, SeqGCD(amounts))
        k == Len(amounts)
        xs == [i \in 1..k |-> amounts[i] \div g]
        cur == current \div g
        sum == SeqSum(xs)
        sumsq == SeqSum([i \in 1..k |-> xs[i] * xs[i]])
        var_num == k * sumsq - sum * sum
    IN  [z_score |-> IF var_num > 0
                     THEN RSqrt(Rat((k * cur - sum) * (k * cur - sum), var_num))
                     ELSE R(0),
         variance_pct |-> IF sum > 0 THEN Rat((k * cur - sum) * 100, sum) ELSE R(0)]

RAbs(q) == [n |-> Abs(q.n), d |-> q.d]

NoPriceAnomaly(reason) ==
    [has_anomaly |-> FALSE, reason |-> reason, confidence |-> R(0), risk |-> "none",
     z_score |-> R(0), variance_percent |-> R(0)]

\* variant: the history taken whole, whatever the vendor of its records
AnyVendorInvoices(invoice, historical) == historical

\* historical invoices of the invoice's vendor
VendorInvoices(invoice, historical) ==
    SelectSeq(historical, LAMBDA h : PyEq(VendorId(h), VendorId(invoice)))

\* [h.get('total_amount', 0) for h in vendor_invoices if h.get('total_amount')]
VendorAmounts(invoice, historical) ==
    LET with == SelectSeq(VendorInvoices(invoice, historical),
                          LAMBDA h : Truthy(Get(h.total_amount)))
    IN  [i \in 1..Len(with) |-> with[i].total_amount.n]

MinVendorHistory == 3

\* _analyze_price raises: abs(None - avg)
AnalyzePriceRaises(invoice, historical, svc) ==
    /\ historical # <<>>
    /\ Len(VendorInvoices(invoice, historical)) >= MinVendorHistory
    /\ VendorAmounts(invoice, historical) # <<>>
    /\ ~IsNum(GetD(invoice.total_amount, IntV(0)))

\* _analyze_price
AnalyzePrice(invoice, historical, svc) ==
    IF historical = <<>> THEN NoPriceAnomaly("No historical data for comparison")
    ELSE IF Len(VendorInvoices(invoice, historical)) < MinVendorHistory
    THEN NoPriceAnomaly("Insufficient historical data")
    ELSE IF VendorAmounts(invoice, historical) = <<>>
    THEN NoPriceAnomaly("No amount data available")
    ELSE
    LET st == PriceStats(GetD(invoice.total_amount, IntV(0)).n,
                         VendorAmounts(invoice, historical))
        has_anomaly == \/ RLt(R(2), st.z_score)
                       \/ RLt(R(svc.thresholds.price_variance_pct), RAbs(st.variance_pct))
    IN  [has_anomaly |-> has_anomaly, reason |-> "",
         confidence |-> IF has_anomaly
                        THEN RMin(Rat(9, 10), RMul(st.z_score, Rat(3, 10))) ELSE R(0),
         risk |-> IF RLt(R(3), st.z_score) THEN "high"
                  ELSE IF has_anomaly THEN "medium" ELSE "none",
         z_score |-> st.z_score, variance_percent |-> st.variance_pct]

\* vendor_data the request does not carry
NoVendor == [present |-> FALSE, created_at |-> Absent]

DefaultVendorAge == 365
NewVendorConfidence == Rat(6, 10)

AnalyzeVendorRaises(vendor) ==
    vendor.present /\ Truthy(Get(vendor.created_at)) /\ DateRaises(vendor.created_at)

\* _analyze_vendor
AnalyzeVendor(vendor, now, svc) ==
    IF ~vendor.present
    THEN [has_anomaly |-> FALSE, vendor_age_days |-> 0, is_new_vendor |-> FALSE,
          confidence |-> R(0), risk |-> "none"]
    ELSE
    LET vendor_age == IF Truthy(Get(vendor.created_at))
                      THEN Days(now - vendor.created_at.n) ELSE DefaultVendorAge
        is_new == vendor_age < svc.thresholds.new_vendor_days
    IN  [has_anomaly |-> is_new, vendor_age_days |-> vendor_age, is_new_vendor |-> is_new,
         confidence |-> IF is_new THEN NewVendorConfidence ELSE R(0),
         risk |-> IF is_new THEN "medium" ELSE "low"]

\* any(term in str(description).lower() for term in generic_terms)
GenericAtom(a) ==
    a \in {"services", "consulting", "misc", "other", "various", "miscellaneous"}

IsGeneric(item) ==
    LET d == GetD(item.description, Str(<<>>))
    IN  d.t = "str" /\ \E i \in 1..Len(d.s) : GenericAtom(LowerAtom(d.s[i]))

Count(b) == IF b THEN 1 ELSE 0

FirstWeekendDay == 5
MorningHour == 6
EveningHour == 22
MinPatterns == 2

AnalyzePatternsRaises(invoice) ==
    Truthy(Get(invoice.created_at)) /\ DateRaises(invoice.created_at)

\* _analyze_patterns
AnalyzePatterns(invoice) ==
    LET created_at == Get(invoice.created_at)
        weekend == Truthy(created_at) /\ Weekday(created_at.n) >= FirstWeekendDay
        after_hours == /\ Truthy(created_at)
                       /\ (Hour(created_at.n) < MorningHour \/ Hour(created_at.n) > EveningHour)
        unusual == /\ invoice.items # <<>>
                   /\ \A i \in 1..Len(invoice.items) : IsGeneric(invoice.items[i])
        anomaly_count == Count(weekend) + Count(after_hours) + Count(unusual)
    IN  [has_weekend_submission |-> weekend, has_after_hours_submission |-> after_hours,
         unusual_line_items |-> unusual, anomaly_count |-> anomaly_count,
         has_anomaly |-> anomaly_count >= MinPatterns,
         confidence |-> IF anomaly_count >= MinPatterns
                        THEN RAdd(Rat(5, 10), RMul(R(anomaly_count), Rat(1, 10)))
                        ELSE R(0),
         risk |-> IF anomaly_count >= 3 THEN "high"
                  ELSE IF anomaly_count >= MinPatterns THEN "medium" ELSE "low"]

RushConfidence == Rat(6, 10)

CheckRushPaymentRaises(invoice) ==
    Truthy(Get(invoice.due_date)) /\ DateRaises(invoice.due_date)

\* _check_rush_payment
CheckRushPayment(invoice, now, svc) ==
    IF ~Truthy(Get(invoice.due_date))
    THEN [is_rush |-> FALSE, days_until_due |-> 0, confidence |-> R(0), risk |-> "none"]
    ELSE
    LET days_until_due == Days(invoice.due_date.n - now)
        is_rush == days_until_due <= svc.thresholds.rush_payment_days
    IN  [is_rush |-> is_rush, days_until_due |-> days_until_due,
         confidence |-> IF is_rush THEN RushConfidence ELSE R(0),
         risk |-> IF is_rush THEN "medium" ELSE "none"]

RoundConfidence == Rat(4, 10)
\* 100 and 10 currency units, in cents
RoundTotalStep == 10000
RoundItemStep == 1000

\* item.get('amount', 0) or item.get('quantity', 1) * item.get('unit_price', 0)
ItemAmount(item) ==
    IF item.amount # 0 THEN item.amount ELSE item.quantity * item.unit_price

\* None >= threshold
CheckRoundAmountRaises(invoice) == ~IsNum(GetD(invoice.total_amount, IntV(0)))

\* _check_round_amount
CheckRoundAmount(invoice, svc) ==
    LET amount == GetD(invoice.total_amount, IntV(0)).n
        is_round == /\ amount >= svc.thresholds.round_amount_threshold * OneUnit
                    /\ amount % RoundTotalStep = 0
        all_items_round == /\ invoice.items # <<>>
                           /\ \A i \in 1..Len(invoice.items) :
                                  ItemAmount(invoice.items[i]) % RoundItemStep = 0
        is_suspicious == is_round /\ all_items_round
    IN  [is_round |-> is_round, all_items_round |-> all_items_round,
         is_suspicious |-> is_suspicious, amount |-> amount,
         confidence |-> IF is_suspicious THEN RoundConfidence ELSE R(0),
         risk |-> IF is_suspicious THEN "low" ELSE "none"]

-----------------------------------------------------------------------------
(* FraudDetectionService: composite score *)

\* variant: an indicator that fires adds its whole weight
ContributionOfWeight(fired, weight, confidence) == IF fired THEN weight ELSE R(0)

\* one "if fired: score += weight * confidence" statement
Contribution(fired, weight, confidence) ==
    IF fired THEN RMul(weight, confidence) ELSE R(0)

\* the score _calculate_anomaly_score accumulates before the cap
WeightedSum(a, svc) ==
    LET w == svc.fraud_weights
    IN      RAdd(Contribution(a.duplicate_check.is_duplicate, w.duplicate_invoice,
                              a.duplicate_check.confidence),
            RAdd(Contribution(a.price_analysis.has_anomaly, w.price_anomaly,
                              a.price_analysis.confidence),
            RAdd(Contribution(a.rush_payment_check.is_rush, w.rush_payment,
                              a.rush_payment_check.confidence),
            RAdd(Contribution(a.round_amount_check.is_suspicious, w.round_amount,
                              a.round_amount_check.confidence),
            RAdd(Contribution(a.vendor_analysis.is_new_vendor, w.new_vendor,
                              a.vendor_analysis.confidence),
                 Contribution(a.pattern_analysis.has_anomaly, w.frequency_anomaly,
                              a.pattern_analysis.confidence))))))

\* variant: once the models are trained the score is raised by a tenth
CalculateAnomalyScoreTrained(a, svc) ==
    RMin(R(1), RAdd(WeightedSum(a, svc),
                    IF svc.models_trained THEN Rat(1, 10) ELSE R(0)))

\* _calculate_anomaly_score
CalculateAnomalyScore(a, svc) == RMin(R(1), WeightedSum(a, svc))

\* _determine_risk_level
\* variant: the thresholds themselves belong to the tier below
DetermineRiskLevelAbove(score) ==
    IF RLt(Rat(7, 10), score) THEN "critical"
    ELSE IF RLt(Rat(5, 10), score) THEN "high"
    ELSE IF RLt(Rat(3, 10), score) THEN "medium"
    ELSE IF RLt(Rat(1, 10), score) THEN "low"
    ELSE "none"

DetermineRiskLevel(score) ==
    IF RLe(Rat(7, 10), score) THEN "critical"
    ELSE IF RLe(Rat(5, 10), score) THEN "high"
    ELSE IF RLe(Rat(3, 10), score) THEN "medium"
    ELSE IF RLe(Rat(1, 10), score) THEN "low"
    ELSE "none"

Indicator(type, severity, confidence) ==
    [type |-> type, severity |-> severity, confidence |-> confidence]

\* _compile_fraud_indicators
CompileFraudIndicators(a) ==
    (IF a.duplicate_check.is_duplicate
     THEN <<Indicator("DUPLICATE_INVOICE", "high", a.duplicate_check.confidence)>>
     ELSE <<>>)
    \o (IF a.price_analysis.has_anomaly
        THEN <<Indicator("PRICE_ANOMALY", a.price_analysis.risk,
                         a.price_analysis.confidence)>>
        ELSE <<>>)
    \o (IF a.vendor_analysis.is_new_vendor
        THEN <<Indicator("NEW_VENDOR", "medium", a.vendor_analysis.confidence)>>
        ELSE <<>>)
    \o (IF a.rush_payment_check.is_rush
        THEN <<Indicator("RUSH_PAYMENT", "medium", a.rush_payment_check.confidence)>>
        ELSE <<>>)
    \o (IF a.round_amount_check.is_suspicious
        THEN <<Indicator("ROUND_AMOUNT", "low", a.round_amount_check.confidence)>>
        ELSE <<>>)
    \o (IF a.pattern_analysis.has_anomaly
        THEN <<Indicator("PATTERN_ANOMALY", a.pattern_analysis.risk,
                         a.pattern_analysis.confidence)>>
        ELSE <<>>)

\* _generate_recommendations: the priorities, in order
GenerateRecommendations(a, score) ==
    (IF RLe(Rat(7, 10), score) THEN <<"critical">>
     ELSE IF RLe(Rat(5, 10), score) THEN <<"high">> ELSE <<>>)
    \o (IF a.duplicate_check.is_duplicate THEN <<"high">> ELSE <<>>)
    \o (IF a.price_analysis.has_anomaly THEN <<"medium">> ELSE <<>>)
    \o (IF a.vendor_analysis.is_new_vendor THEN <<"medium">> ELSE <<>>)

\* the six evaluator results of analyze_invoice
Evaluate(invoice, historical, vendor, now, svc) ==
    [duplicate_check |-> CheckDuplicate(invoice, historical),
     price_analysis |-> AnalyzePrice(invoice, historical, svc),
     vendor_analysis |-> AnalyzeVendor(vendor, now, svc),
     pattern_analysis |-> AnalyzePatterns(invoice),
     rush_payment_check |-> CheckRushPayment(invoice, now, svc),
     round_amount_check |-> CheckRoundAmount(invoice, svc)]

\* the evaluator that raises first, in the order the dict literal calls them
AnalyzeError(invoice, historical, vendor, svc) ==
    IF AnalyzePriceRaises(invoice, historical, svc) THEN "TypeError"
    ELSE IF AnalyzeVendorRaises(vendor) THEN "ValueError"
    ELSE IF AnalyzePatternsRaises(invoice) THEN "ValueError"
    ELSE IF CheckRushPaymentRaises(invoice) THEN "ValueError"
    ELSE IF CheckRoundAmountRaises(invoice) THEN "TypeError"
    ELSE ""

NoInvoice ==
    [id |-> Absent, invoice_id |-> Absent, invoice_number |-> Absent,
     total_amount |-> IntV(0), invoice_date |-> Absent, vendor |-> Absent,
     vendor_id |-> Absent, due_date |-> Absent, created_at |-> Absent, items |-> <<>>]

\* FraudDetectionService.__init__
FdsInit ==
    [models_trained |-> FALSE,
     fraud_weights |-> [duplicate_invoice |-> Rat(35, 100), price_anomaly |-> Rat(25, 100),
                        rush_payment |-> Rat(15, 100), round_amount |-> Rat(5, 100),
                        new_vendor |-> Rat(10, 100), frequency_anomaly |-> Rat(10, 100)],
     thresholds |-> [price_variance_pct |-> 20, duplicate_time_window |-> 7,
                     rush_payment_days |-> 3, round_amount_threshold |-> 1000,
                     new_vendor_days |-> 30, frequency_multiplier |-> 2],
     vendor_stats_cache |-> <<>>]

NoAnalysis ==
    [called |-> FALSE, success |-> FALSE, error |-> "", invoice_id |-> Null,
     checks |-> Evaluate(NoInvoice, <<>>, NoVendor, 0, FdsInit),
     anomaly_score |-> R(0), risk_level |-> "", fraud_indicators |-> <<>>,
     recommendations |-> <<>>]

\* analyze_invoice
AnalyzeInvoice(invoice, historical, vendor, now, svc) ==
    IF AnalyzeError(invoice, historical, vendor, svc) # ""
    THEN [NoAnalysis EXCEPT !.called = TRUE,
                            !.error = AnalyzeError(invoice, historical, vendor, svc)]
    ELSE
    LET checks == Evaluate(invoice, historical, vendor, now, svc)
        score == CalculateAnomalyScore(checks, svc)
    IN  [called |-> TRUE, success |-> TRUE, error |-> "",
         invoice_id |-> RecordId(invoice), checks |-> checks,
         anomaly_score |-> score, risk_level |-> DetermineRiskLevel(score),
         fraud_indicators |-> CompileFraudIndicators(checks),
         recommendations |-> GenerateRecommendations(checks, score)]

\* variant: the vendor of the invoice remembered in the statistics cache
ServiceAfterAnalysisCached(invoice, svc) ==
    [svc EXCEPT !.vendor_stats_cache = Append(@, VendorId(invoice))]

\* the service after analyze_invoice: no attribute is assigned
ServiceAfterAnalysis(invoice, svc) == svc

-----------------------------------------------------------------------------
(* FraudDetectionService: batch_analyze *)

NoBatchResult ==
    [called |-> FALSE, success |-> FALSE, total_invoices |-> 0,
     analyzed |-> <<>>, high_risk |-> <<>>, failed |-> <<>>]

\* variant: an invoice whose analysis failed is left out of the results
BatchStepDropsFailed(res, invoice, a) ==
    IF a.success
    THEN [res EXCEPT
            !.analyzed = Append(@, [invoice_id |-> a.invoice_id,
                                    risk_level |-> a.risk_level,
                                    anomaly_score |-> a.anomaly_score]),
            !.high_risk = IF a.risk_level \in {"high", "critical"}
                          THEN Append(@, [invoice_id |-> a.invoice_id,
                                          risk_level |-> a.risk_level,
                                          indicators |-> a.fraud_indicators])
                          ELSE @]
    ELSE res

\* the body of the loop: a is the analysis of the invoice
BatchStep(res, invoice, a) ==
    IF a.success
    THEN [res EXCEPT
            !.analyzed = Append(@, [invoice_id |-> a.invoice_id,
                                    risk_level |-> a.risk_level,
                                    anomaly_score |-> a.anomaly_score]),
            !.high_risk = IF a.risk_level \in {"high", "critical"}
                          THEN Append(@, [invoice_id |-> a.invoice_id,
                                          risk_level |-> a.risk_level,
                                          indicators |-> a.fraud_indicators])
                          ELSE @]
    ELSE [res EXCEPT
            !.failed = Append(@, [invoice_id |-> RecordId(invoice), error |-> a.error])]

RECURSIVE BatchLoop(_, _, _, _, _)
\* for invoice in invoices
BatchLoop(invoices, historical, now, svc, res) ==
    IF invoices = <<>> THEN res
    ELSE BatchLoop(Tail(invoices), historical, now, svc,
                   BatchStep(res, Head(invoices),
                             AnalyzeInvoice(Head(invoices), historical, NoVendor, now,
                                            svc)))

\* batch_analyze
BatchAnalyze(invoices, historical, now, svc) ==
    BatchLoop(invoices, historical, now, svc,
              [NoBatchResult EXCEPT !.called = TRUE, !.success = TRUE,
                                    !.total_invoices = Len(invoices)])

RECURSIVE ServiceAfterBatch(_, _)
\* the service after batch_analyze: after analyze_invoice on each invoice
ServiceAfterBatch(invoices, svc) ==
    IF invoices = <<>> THEN svc
    ELSE ServiceAfterBatch(Tail(invoices), ServiceAfterAnalysis(Head(invoices), svc))

-----------------------------------------------------------------------------
(* FraudDetectionService: train_model and predict_fraud.  The scikit-learn  *)
(* calls are outside the repository: "fit" is what they do on the data      *)
(* given ("ok", "empty": no feature row extracted, "raises").               *)

MinTrainingRecords == 10

NoTrainResult == [called |-> FALSE, success |-> FALSE, error |-> ""]

\* variant: the flag set before the features are looked at
TrainModelFlagFirst(n_records, fit, svc) ==
    IF n_records < MinTrainingRecords
    THEN [result |-> [called |-> TRUE, success |-> FALSE, error |-> "Insufficient data"],
          svc |-> svc]
    ELSE IF fit = "empty"
    THEN [result |-> [called |-> TRUE, success |-> FALSE, error |-> "Failed to extract"],
          svc |-> [svc EXCEPT !.models_trained = TRUE]]
    ELSE IF fit = "raises"
    THEN [result |-> [called |-> TRUE, success |-> FALSE, error |-> "Exception"],
          svc |-> svc]
    ELSE [result |-> [called |-> TRUE, success |-> TRUE, error |-> ""],
          svc |-> [svc EXCEPT !.models_trained = TRUE]]

\* train_model: [result, the service afterwards]
TrainModel(n_records, fit, svc) ==
    IF n_records < MinTrainingRecords
    THEN [result |-> [called |-> TRUE, success |-> FALSE, error |-> "Insufficient data"],
          svc |-> svc]
    ELSE IF fit = "empty"
    THEN [result |-> [called |-> TRUE, success |-> FALSE, error |-> "Failed to extract"],
          svc |-> svc]
    ELSE IF fit = "raises"
    THEN [result |-> [called |-> TRUE, success |-> FALSE, error |-> "Exception"],
          svc |-> svc]
    ELSE [result |-> [called |-> TRUE, success |-> TRUE, error |-> ""],
          svc |-> [svc EXCEPT !.models_trained = TRUE]]

\* predict_fraud
PredictFraud(transform, svc) ==
    IF ~svc.models_trained
    THEN [called |-> TRUE, success |-> FALSE, error |-> "Model not trained"]
    ELSE IF transform = "raises"
    THEN [called |-> TRUE, success |-> FALSE, error |-> "Exception"]
    ELSE [called |-> TRUE, success |-> TRUE, error |-> ""]

-----------------------------------------------------------------------------
(* InvoiceMLService.__init__ *)

ImsInit ==
    [fraud_indicators |->
        [suspicious_amounts |-> <<999999, 1000000, 500000>>,
         suspicious_vendors |-> <<"test", "dummy", "fake", "temp">>,
         round_amounts |-> TRUE, weekend_dates |-> TRUE,
         duplicate_threshold |-> Rat(95, 100)]]

-----------------------------------------------------------------------------
(* Requests *)

SeqsUpTo(S, n) == UNION { [1..k -> S] : k \in 0..n }

sAcme == <<"Acme", " ", "Corp">>
sAcmeLow == <<" ", "acme", " ", "corp">>
sAcmeLtd == <<"acme", " ", "corp", " ", "ltd">>
sOther == <<"acme", " ", "inc">>
dBolt == <<"steel", " ", "bolt">>
dBoltUp == <<" ", "Steel", " ", "Bolt", " ">>
dBoltM8 == <<"steel", " ", "bolt", " ", "m8">>
dBoltZinc == <<"steel", " ", "bolt", " ", "m8", " ", "zinc", " ", "plated">>
dPipe == <<"copper", " ", "pipe">>
sDate == <<"2025-01-01">>
sLateDate == <<"2025-03-01">>

Line(desc, qty, price) ==
    [description |-> Str(desc), quantity |-> qty, unit_price |-> price]

Doc(po_number, vendor_name, lines) ==
    [present |-> TRUE, po_number |-> po_number, vendor_name |-> vendor_name,
     line_items |-> lines]

DefaultInvoiceData ==
    [invoice_number |-> Str(<<"INV-1">>), vendor_name |-> Str(sAcme),
     total_amount |-> FloatV(12050), invoice_date |-> Str(sDate),
     po_number |-> Str(<<"PO-1">>), line_items |-> <<>>,
     bank_account_changed |-> Absent]

InvLineOptions ==
    { Line(dBoltUp, 10, 100), Line(dBolt, 10, 105), Line(dBolt, 11, 106),
      Line(dBolt, 15, 150), Line(dPipe, 10, 100) }

MatchInvoices ==
    { [DefaultInvoiceData EXCEPT !.po_number = p, !.vendor_name = v, !.line_items = ls] :
        p \in {Str(<<"PO-1", " ">>), Str(<<"PO-2">>)},
        v \in {Null, Str(sAcmeLow), Str(sAcmeLtd), Str(sOther)},
        ls \in SeqsUpTo(InvLineOptions, MaxInvLines) }

\* invoices with one line whose description is empty, or shares 3 of its 5 words
\* with a PO line
EdgeInvoices ==
    { [DefaultInvoiceData EXCEPT !.po_number = Str(<<"PO-1", " ">>),
                                 !.vendor_name = Str(sAcmeLow), !.line_items = <<l>>] :
        l \in { Line(<<>>, 10, 100), Line(dBoltZinc, 10, 100) } }

PurchaseOrders ==
    { Doc(Str(<<"PO-1">>), Str(sAcme), ls) :
        ls \in { <<>>,
                 <<Line(<<>>, 10, 90)>>,
                 <<Line(dBolt, 10, 100)>>,
                 <<Line(dBoltM8, 10, 200), Line(dBolt, 10, 100)>>,
                 <<Line(dBolt, 10, 0)>>,
                 <<Line(dPipe, 10, 100), Line(dBolt, 10, 100)>> } }

GoodsReceipts ==
    { Doc(Absent, Absent, ls) :
        ls \in { <<>>,
                 <<Line(dBolt, 10, 0)>>,
                 <<Line(dBolt, 0, 0)>>,
                 <<Line(dPipe, 5, 0), Line(dBolt, 10, 0)>> } }

Tolerances == {Rat(5, 100), Rat(10, 100)}

HistRecord(number, vendor, amount, date) ==
    [id |-> Absent, invoice_number |-> number, vendor_name |-> vendor,
     total_amount |-> amount, invoice_date |-> date]

\* the records of a list carry the identifiers h1, h2, ... in list order
WithIds(hs) == [i \in 1..Len(hs) |-> [hs[i] EXCEPT !.id = Str(<<"h", ToString(i)>>)]]

HistOptions ==
    { HistRecord(n, v, a, d) :
        n \in {Str(<<"INV-1">>), Str(<<"INV-2">>)},
        v \in {Str(sAcme), Str(sOther)},
        a \in {IntV(500000), FloatV(500000), FloatV(999999)},
        d \in {Str(sDate), Str(sLateDate)} }

Histories == { WithIds(hs) : hs \in SeqsUpTo(HistOptions, MaxHist) }

\* a record that is the default invoice's number, vendor, amount 5000.00 and date
\* in another letter case or with surrounding blanks
VariantRecords ==
    { HistRecord(n, v, FloatV(500000), Str(sDate)) :
        n \in {Str(<<"INV-1">>), Str(<<"inv-1">>)},
        v \in {Str(sAcme), Str(sAcmeLow)} }

VariantHistories == { WithIds(<<h>>) : h \in VariantRecords }

\* the longest list of copies of one record
MaxCopies == 6

\* a history that holds the same record several times (re-submissions)
CopiedHistories ==
    { WithIds([i \in 1..k |-> h]) :
        k \in 3..MaxCopies,
        h \in { HistRecord(Str(<<"INV-1">>), Str(sAcme), a, Str(sDate)) :
                  a \in {IntV(500000), FloatV(500000), FloatV(999999)} } }

DupInvoices ==
    { [DefaultInvoiceData EXCEPT !.invoice_number = n, !.total_amount = a] :
        n \in {Str(<<"INV-1">>), Absent},
        a \in {IntV(500000), FloatV(500000), Null} }

PointsInvoices ==
    { [DefaultInvoiceData EXCEPT !.invoice_number = n, !.vendor_name = v,
                                 !.total_amount = a, !.invoice_date = d,
                                 !.bank_account_changed = b] :
        n \in {Str(<<"INV-1">>), Str(<<"A1">>), Absent, Null},
        v \in {Str(sAcme), Str(<<"Faketest", " ", "temp", " ", "dummy">>), Null, Absent},
        a \in {IntV(0), FloatV(500000), FloatV(999999), FloatV(12050), FloatV(2000000),
               Str(<<"$5,000.00">>), Str(<<"N/A">>), Null, Absent},
        d \in {Str(sDate), Absent},
        b \in {Absent, True} }

\* what process_with_ocr extracts: every key present, None where nothing was found
OcrInvoices ==
    { [DefaultInvoiceData EXCEPT !.invoice_number = n, !.vendor_name = v,
                                 !.total_amount = a, !.po_number = p, !.line_items = ls,
                                 !.bank_account_changed = Absent] :
        n \in {Str(<<"INV-1">>), Null},
        v \in {Str(sAcmeLow), Null},
        a \in {FloatV(500000), FloatV(12050), Null},
        p \in {Str(<<"PO-1">>), Str(<<"PO-2">>), Null},
        ls \in {<<>>, <<Line(dBoltUp, 10, 100)>>, <<Line(dBolt, 15, 150)>>} }

PipeHistories ==
    { <<>>,
      WithIds(<<HistRecord(Str(<<"INV-1">>), Str(sAcmeLow), FloatV(500000), Str(sDate))>>),
      WithIds(<<HistRecord(Str(<<"INV-2">>), Str(sOther), FloatV(999999), Str(sDate))>>) }

Item(desc, amount) ==
    [description |-> Str(desc), amount |-> amount, quantity |-> 1, unit_price |-> 0]

FdsRecord(id, number, amount) ==
    [NoInvoice EXCEPT !.id = id, !.invoice_number = number, !.total_amount = amount,
                      !.vendor = Str(<<"v1">>)]

FdsInvoices ==
    { [FdsRecord(i, Str(<<"INV-1">>), a) EXCEPT !.due_date = d, !.created_at = c,
                                                !.items = it] :
        i \in {Str(<<"i1">>), Absent},
        a \in {IntV(500000), IntV(505000), IntV(100000), IntV(750000), Null},
        d \in {Absent, Iso(1728), IsoAt(1784, 59), Iso(1800), Str(<<"soon">>)},
        c \in {Absent, IsoAt(1654, 30), Iso(1655), Iso(1668)},
        it \in { <<>>, <<Item(<<"consulting", " ", "services">>, 500000)>>,
                 <<Item(dBolt, 120500)>> } }

FdsHistories ==
    { <<>>,
      <<FdsRecord(Str(<<"h1">>), Str(<<"INV-2">>), IntV(400000)),
        FdsRecord(Str(<<"h2">>), Str(<<"INV-3">>), IntV(600000)),
        FdsRecord(Str(<<"h3">>), Str(<<"INV-4">>), IntV(400000)),
        FdsRecord(Str(<<"h4">>), Str(<<"INV-5">>), IntV(600000))>>,
      <<FdsRecord(Str(<<"h1">>), Str(<<"INV-1">>), IntV(770000))>>,
      <<FdsRecord(Absent, Str(<<"INV-2">>), IntV(500000)),
        FdsRecord(Absent, Str(<<"INV-3">>), IntV(500000)),
        FdsRecord(Absent, Str(<<"INV-4">>), IntV(500000))>>,
      <<FdsRecord(Str(<<"h1">>), Str(<<"INV-2">>), IntV(300000)),
        FdsRecord(Str(<<"h2">>), Str(<<"INV-3">>), IntV(500000)),
        FdsRecord(Str(<<"h3">>), Str(<<"INV-4">>), IntV(700000))>>,
      <<FdsRecord(Absent, Str(<<"INV-1">>), IntV(400000)),
        [FdsRecord(Str(<<"h2">>), Str(<<"INV-8">>), IntV(600000))
            EXCEPT !.vendor = Str(<<"v2">>)],
        FdsRecord(Str(<<"h3">>), Str(<<"INV-9">>), IntV(400000)),
        [FdsRecord(Str(<<"h4">>), Str(<<"INV-8">>), IntV(600000))
            EXCEPT !.vendor = Str(<<"v2">>)]>> }

Vendor(created_at) == [present |-> TRUE, created_at |-> created_at]

Vendors == {NoVendor, Vendor(Iso(1449)), Vendor(Iso(-7911)), Vendor(Absent)}

OtherInvoices ==
    { FdsRecord(Str(<<"i2">>), Str(<<"INV-7">>), IntV(100000)),
      FdsRecord(Str(<<"i3">>), Str(<<"INV-1">>), Null) }

\* the batches are drawn from these: one invoice that repeats a historical number,
\* one that repeats none, two that analyze_invoice fails on
BatchInvoices ==
    { FdsRecord(Absent, Str(<<"INV-1">>), IntV(100000)),
      FdsRecord(Str(<<"i2">>), Str(<<"INV-7">>), IntV(505000)),
      FdsRecord(Str(<<"i3">>), Str(<<"INV-1">>), Null),
      [FdsRecord(Absent, Str(<<"INV-7">>), IntV(500000)) EXCEPT !.due_date = Str(<<"soon">>)] }

BatchHistories ==
    { <<>>,
      <<FdsRecord(Str(<<"h1">>), Str(<<"INV-1">>), IntV(400000)),
        FdsRecord(Str(<<"h2">>), Str(<<"INV-3">>), IntV(600000)),
        FdsRecord(Str(<<"h3">>), Str(<<"INV-4">>), IntV(400000)),
        FdsRecord(Str(<<"h4">>), Str(<<"INV-5">>), IntV(600000))>> }

TrainSizes == {9, 10}
Outcomes == {"ok", "empty", "raises"}

-----------------------------------------------------------------------------
(* The state machine *)

NoCall == [op |-> "", again |-> FALSE]
Call(op, before) == [op |-> op, again |-> before]

\* both services as constructed, nothing called yet
Start ==
    /\ match_result = NoMatchResult
    /\ duplicate_result = NoDuplicateResult
    /\ fraud_result = NoFraudResult
    /\ full_result = NoFullResult
    /\ analysis = NoAnalysis
    /\ other_analysis = NoAnalysis
    /\ batch_result = NoBatchResult
    /\ train_result = NoTrainResult
    /\ predict_result = NoTrainResult
    /\ ims = ImsInit
    /\ fds = FdsInit
    /\ last_call = NoCall

NoMlRequest ==
    /\ invoice_data = DefaultInvoiceData
    /\ po_data = NoDoc
    /\ grn_data = NoDoc
    /\ tolerance = Rat(5, 100)
    /\ historical_invoices = <<>>
    /\ image = "none"
    /\ gl_accounts = FALSE
    /\ tax_rules = FALSE

\* the clock reads Monday 09:00
NoFdsRequest ==
    /\ fds_invoice = [FdsRecord(Str(<<"i1">>), Str(<<"INV-1">>), IntV(100000))
                         EXCEPT !.due_date = Iso(1728)]
    /\ historical_data = <<>>
    /\ vendor_data = NoVendor
    /\ batch_invoices = <<>>
    /\ clock = 1689

InitMatch ==
    /\ invoice_data \in MatchInvoices \cup EdgeInvoices
    /\ po_data \in PurchaseOrders
    /\ grn_data \in GoodsReceipts
    /\ tolerance \in Tolerances
    /\ historical_invoices = <<>>
    /\ image = "none"
    /\ gl_accounts = FALSE
    /\ tax_rules = FALSE
    /\ NoFdsRequest
    /\ Start

InitDup ==
    /\ invoice_data \in DupInvoices
    /\ historical_invoices \in Histories \cup VariantHistories \cup CopiedHistories
    /\ po_data = NoDoc
    /\ grn_data = NoDoc
    /\ tolerance = Rat(5, 100)
    /\ image = "none"
    /\ gl_accounts = FALSE
    /\ tax_rules = FALSE
    /\ NoFdsRequest
    /\ Start

InitPoints ==
    /\ invoice_data \in PointsInvoices
    /\ historical_invoices = <<>>
    /\ po_data = NoDoc
    /\ grn_data = NoDoc
    /\ tolerance = Rat(5, 100)
    /\ image = "none"
    /\ gl_accounts = FALSE
    /\ tax_rules = FALSE
    /\ NoFdsRequest
    /\ Start

InitAnalyze ==
    /\ fds_invoice \in FdsInvoices
    /\ historical_data \in FdsHistories
    /\ vendor_data \in Vendors
    /\ batch_invoices = <<>>
    /\ clock = 1689
    /\ NoMlRequest
    /\ Start

InitBatch ==
    /\ batch_invoices \in SeqsUpTo(BatchInvoices, MaxBatch)
    /\ historical_data \in BatchHistories
    /\ fds_invoice = FdsRecord(Str(<<"i1">>), Str(<<"INV-1">>), IntV(100000))
    /\ vendor_data = NoVendor
    /\ clock = 1689
    /\ NoMlRequest
    /\ Start

InitFraud == InitPoints \/ InitAnalyze

InitPipe ==
    /\ image \in {"none", "unreadable", "ok"}
    /\ invoice_data \in OcrInvoices
    /\ po_data \in {NoDoc, Doc(Str(<<"PO-1">>), Str(sAcme), <<Line(dBolt, 10, 100)>>)}
    /\ grn_data \in {NoDoc, Doc(Absent, Absent, <<Line(dBolt, 10, 0)>>)}
    /\ tolerance = Rat(5, 100)
    /\ historical_invoices \in PipeHistories
    /\ gl_accounts \in BOOLEAN
    /\ tax_rules = FALSE
    /\ NoFdsRequest
    /\ Start

Init ==
    /\ invoice_data = [DefaultInvoiceData EXCEPT !.vendor_name = Str(sAcmeLow),
                                                 !.total_amount = FloatV(500000),
                                                 !.line_items = <<Line(dBolt, 10, 105)>>]
    /\ po_data = Doc(Str(<<"PO-1">>), Str(sAcme), <<Line(dBolt, 10, 100)>>)
    /\ grn_data = Doc(Absent, Absent, <<Line(dBolt, 10, 0)>>)
    /\ tolerance = Rat(5, 100)
    /\ historical_invoices =
         WithIds(<<HistRecord(Str(<<"INV-1">>), Str(sAcme), IntV(500000), Str(sDate))>>)
    /\ image = "ok"
    /\ gl_accounts = TRUE
    /\ tax_rules = FALSE
    /\ fds_invoice \in { FdsRecord(Str(<<"i1">>), Str(<<"INV-1">>), IntV(750000)),
                         FdsRecord(Str(<<"i1">>), Str(<<"INV-1">>), Null) }
    /\ historical_data = <<FdsRecord(Str(<<"h1">>), Str(<<"INV-1">>), IntV(770000))>>
    /\ vendor_data = Vendor(Iso(1449))
    /\ batch_invoices = <<FdsRecord(Str(<<"i2">>), Str(<<"INV-1">>), IntV(750000)),
                           FdsRecord(Str(<<"i3">>), Str(<<"INV-1">>), Null),
                           FdsRecord(Absent, Str(<<"INV-7">>), IntV(100000))>>
    /\ clock = 1689
    /\ Start

\* POST /invoice/three-way-match: all three documents are required
ThreeWayMatch ==
    /\ po_data.present /\ grn_data.present
    /\ match_result' = PerformThreeWayMatch(invoice_data, po_data, grn_data, tolerance)
    /\ last_call' = Call("perform_three_way_match", match_result.called)
    /\ UNCHANGED <<requests, duplicate_result, fraud_result, full_result, analysis,
                   other_analysis, batch_result, train_result, predict_result, ims, fds>>

\* POST /invoice/detect-duplicate
DetectDuplicateCall ==
    /\ duplicate_result' = DetectDuplicate(invoice_data, historical_invoices, ims)
    /\ last_call' = Call("detect_duplicate", duplicate_result.called)
    /\ UNCHANGED <<requests, match_result, fraud_result, full_result, analysis,
                   other_analysis, batch_result, train_result, predict_result, ims, fds>>

\* POST /invoice/detect-fraud
DetectFraudCall ==
    /\ fraud_result' = DetectFraud(invoice_data, ims)
    /\ last_call' = Call("detect_fraud", fraud_result.called)
    /\ UNCHANGED <<requests, match_result, duplicate_result, full_result, analysis,
                   other_analysis, batch_result, train_result, predict_result, ims, fds>>

\* POST /invoice/full-process
FullProcess ==
    /\ full_result' = InvoiceFullProcess(image, invoice_data, po_data, grn_data, tolerance,
                                         historical_invoices, gl_accounts, tax_rules, ims)
    /\ last_call' = Call("invoice_full_process", full_result.called)
    /\ UNCHANGED <<requests, match_result, duplicate_result, fraud_result, analysis,
                   other_analysis, batch_result, train_result, predict_result, ims, fds>>

\* POST /fraud/analyze on the invoice of the request
AnalyzeInvoiceCall ==
    /\ analysis' = AnalyzeInvoice(fds_invoice, historical_data, vendor_data, clock, fds)
    /\ last_call' = Call("analyze_invoice", analysis.called)
    /\ fds' = ServiceAfterAnalysis(fds_invoice, fds)
    /\ UNCHANGED <<requests, match_result, duplicate_result, fraud_result, full_result,
                   other_analysis, batch_result, train_result, predict_result, ims>>

\* POST /fraud/analyze on some other invoice
AnalyzeOtherInvoice ==
    /\ \E other \in OtherInvoices :
           /\ other_analysis' = AnalyzeInvoice(other, historical_data, NoVendor, clock, fds)
           /\ fds' = ServiceAfterAnalysis(other, fds)
    /\ last_call' = Call("analyze_invoice (other)", other_analysis.called)
    /\ UNCHANGED <<requests, match_result, duplicate_result, fraud_result, full_result,
                   analysis, batch_result, train_result, predict_result, ims>>

\* batch_analyze on the batch of the request
BatchAnalyzeCall ==
    /\ batch_result' = BatchAnalyze(batch_invoices, historical_data, clock, fds)
    /\ fds' = ServiceAfterBatch(batch_invoices, fds)
    /\ last_call' = Call("batch_analyze", batch_result.called)
    /\ UNCHANGED <<requests, match_result, duplicate_result, fraud_result, full_result,
                   analysis, other_analysis, train_result, predict_result, ims>>

\* POST /fraud/train
TrainModelCall ==
    /\ \E n \in TrainSizes, fit \in Outcomes :
           /\ train_result' = TrainModel(n, fit, fds).result
           /\ fds' = TrainModel(n, fit, fds).svc
    /\ last_call' = Call("train_model", train_result.called)
    /\ UNCHANGED <<requests, match_result, duplicate_result, fraud_result, full_result,
                   analysis, other_analysis, batch_result, predict_result, ims>>

\* POST /fraud/predict
PredictFraudCall ==
    /\ \E transform \in {"ok", "raises"} :
           predict_result' = PredictFraud(transform, fds)
    /\ last_call' = Call("predict_fraud", predict_result.called)
    /\ UNCHANGED <<requests, match_result, duplicate_result, fraud_result, full_result,
                   analysis, other_analysis, batch_result, train_result, ims, fds>>

Next ==
    \/ ThreeWayMatch
    \/ DetectDuplicateCall
    \/ DetectFraudCall
    \/ FullProcess
    \/ AnalyzeInvoiceCall
    \/ AnalyzeOtherInvoice
    \/ TrainModelCall
    \/ PredictFraudCall

Spec == Init /\ [][Next]_vars

NextMatch == ThreeWayMatch
SpecMatch == InitMatch /\ [][NextMatch]_vars

NextDup == DetectDuplicateCall
SpecDup == InitDup /\ [][NextDup]_vars

NextFraud == AnalyzeInvoiceCall \/ DetectFraudCall
SpecFraud == InitFraud /\ [][NextFraud]_vars

NextPipe == FullProcess
SpecPipe == InitPipe /\ [][NextPipe]_vars

NextBatch == BatchAnalyzeCall
SpecBatch == InitBatch /\ [][NextBatch]_vars

\* the operations that only read, interleaved with the one that trains
NextShared ==
    \/ ThreeWayMatch
    \/ DetectDuplicateCall
    \/ DetectFraudCall
    \/ AnalyzeInvoiceCall
    \/ BatchAnalyzeCall
    \/ TrainModelCall
SpecShared == Init /\ [][NextShared]_vars

-----------------------------------------------------------------------------
(* Properties of perform_three_way_match (SpecMatch) *)

\* the match ran to its end (no error result)
Matched3Way == match_result.called /\ match_result.error = ""

HasDisc(type) ==
    \E i \in 1..Len(match_result.discrepancies) : match_result.discrepancies[i].type = type

CountDiscs(type) ==
    Cardinality({ i \in 1..Len(match_result.discrepancies) :
                    match_result.discrepancies[i].type = type })

\* every invoice line has the price of its PO line and the quantity of its GRN line
AllLinesExact ==
    \A i \in 1..Len(match_result.line_matches) :
        LET lm == match_result.line_matches[i]
        IN  lm.invoice_price = lm.po_price /\ lm.invoice_qty = lm.grn_qty

\* C3: whenever the PO number matches, the vendor matches and every invoice line
\* (zero or more of them) has exactly the price of its PO line and the quantity of
\* its GRN line, perform_three_way_match returns match_score 100 and status
\* 'matched'.  The code does not do this for an invoice without line items.
ExactMatchScores100 ==
    ( /\ Matched3Way
      /\ MatchPoNumber(invoice_data, po_data).matched
      /\ MatchVendor(invoice_data, po_data).matched
      /\ AllLinesExact )
    => (match_result.match_score = R(100) /\ match_result.status = "matched")

\* C7: the discrepancy list of any call has a po_number_mismatch entry exactly when
\* the PO numbers differ, whatever the other checks do.  The code does not do this
\* when the vendor check raises.
PoMismatchAlwaysListed ==
    match_result.called =>
        (HasDisc("po_number_mismatch") <=> ~MatchPoNumber(invoice_data, po_data).matched)

Min30(x) == IF RLt(R(30), x) THEN R(30) ELSE x

\* 100 - min(30, price_variance x 100) - min(30, quantity_variance x 100), floored at 0
PerLineFormula(lm) ==
    LET v == RSub(RSub(R(100), Min30(RMul(lm.price_variance, R(100)))),
                  Min30(RMul(lm.quantity_variance, R(100))))
    IN  IF RLt(v, R(0)) THEN R(0) ELSE v

HeaderFormula ==
    100 - (IF HasDisc("po_number_mismatch") THEN 20 ELSE 0)
        - (IF HasDisc("vendor_mismatch") THEN 15 ELSE 0)

\* the mean of the per-line scores (taken as 0 when there is no line)
MeanFormula ==
    LET lms == match_result.line_matches
    IN  IF lms = <<>> THEN R(0) ELSE RDiv(SumScores(lms), R(Len(lms)))

\* C9: the overall score is 0.3 x header score + 0.7 x mean per-line score, each
\* per-line score is 100 - min(30, price_variance x 100) - min(30, quantity_variance
\* x 100) floored at 0, there is one per-line entry for each invoice line in input
\* order, a line that matches no PO line keeps variance 0 and score 100, and the
\* overall score lies in [0,100].
ScoreAggregation ==
    Matched3Way =>
        LET lms == match_result.line_matches
            lines == invoice_data.line_items
        IN  /\ match_result.match_score =
                   RAdd(RMul(Rat(3, 10), R(HeaderFormula)), RMul(Rat(7, 10), MeanFormula))
            /\ Len(lms) = Len(lines)
            /\ \A i \in 1..Len(lms) :
                   /\ lms[i].description = lines[i].description
                   /\ lms[i].invoice_qty = lines[i].quantity
                   /\ lms[i].invoice_price = lines[i].unit_price
                   /\ lms[i].match_score = PerLineFormula(lms[i])
                   /\ (\A j \in 1..Len(po_data.line_items) :
                           ~DescriptionsMatch(lines[i].description,
                                              po_data.line_items[j].description))
                      => /\ lms[i].price_variance = R(0)
                         /\ lms[i].quantity_variance = R(0)
                         /\ lms[i].match_score = R(100)
            /\ RLe(R(0), match_result.match_score)
            /\ RLe(match_result.match_score, R(100))

\* two lines, one with both penalties at the cap and one that matches no PO line
CappedAndUnmatchedLines ==
    /\ Matched3Way
    /\ Len(match_result.line_matches) = 2
    /\ \E i \in 1..2 : match_result.line_matches[i].match_score = R(40)
    /\ \E i \in 1..2 : /\ match_result.line_matches[i].po_qty = 0
                       /\ match_result.line_matches[i].match_score = R(100)
    /\ HasDisc("vendor_mismatch")

\* C10: a price_variance (resp. quantity_variance) discrepancy is emitted for a line
\* exactly when that line's variance is strictly greater than the tolerance: a
\* variance equal to the tolerance gives none, any larger variance gives one.
StrictToleranceBoundary ==
    Matched3Way =>
        LET lms == match_result.line_matches
            discs == match_result.discrepancies
        IN  /\ CountDiscs("price_variance") =
                   Cardinality({ i \in 1..Len(lms) : RLt(tolerance, lms[i].price_variance) })
            /\ CountDiscs("quantity_variance") =
                   Cardinality({ i \in 1..Len(lms) : RLt(tolerance, lms[i].quantity_variance) })
            /\ \A k \in 1..Len(discs) :
                   /\ discs[k].type = "price_variance" =>
                         \E i \in 1..Len(lms) :
                             /\ lms[i].description = discs[k].line_item
                             /\ lms[i].price_variance = discs[k].variance_pct
                             /\ RLt(tolerance, lms[i].price_variance)
                   /\ discs[k].type = "quantity_variance" =>
                         \E i \in 1..Len(lms) :
                             /\ lms[i].description = discs[k].line_item
                             /\ lms[i].quantity_variance = discs[k].variance_pct
                             /\ RLt(tolerance, lms[i].quantity_variance)

\* one line exactly at the tolerance (not listed), another just above it (listed)
VarianceAtAndAboveTolerance ==
    /\ Matched3Way
    /\ \E i \in 1..Len(match_result.line_matches) :
           match_result.line_matches[i].price_variance = tolerance
    /\ \E i \in 1..Len(match_result.line_matches) :
           RLt(tolerance, match_result.line_matches[i].price_variance)
    /\ CountDiscs("price_variance") = 1

\* similarity of two token sets (0 when both are empty)
TokenSimilarity(t1, t2) == IF t1 \cup t2 = {} THEN R(0) ELSE Jaccard(t1, t2)

\* 1.0 for texts equal in lower case without surrounding blanks, else the
\* similarity of their word sets
Similarity(a, b) ==
    IF Strip(Lower(a)) = Strip(Lower(b)) THEN R(1)
    ELSE TokenSimilarity(Tokens(Strip(Lower(a))), Tokens(Strip(Lower(b))))

ShouldMatch(a, b) ==
    \/ Strip(Lower(a)) = Strip(Lower(b))
    \/ RLt(Rat(6, 10), Similarity(a, b))

\* the descriptions of the PO lines and the GRN lines of the request
OtherDescriptions ==
    { po_data.line_items[j].description : j \in 1..Len(po_data.line_items) }
    \cup { grn_data.line_items[j].description : j \in 1..Len(grn_data.line_items) }

\* C22 as stated: the vendor names match, and an invoice line's description matches
\* a PO or GRN line's description, exactly when the two texts are equal after
\* lower-casing and trimming or their token similarity is greater than 0.6 (exactly
\* 0.6 is no match); the verdict is the same with the arguments exchanged.
FuzzyMatchRule ==
    Matched3Way =>
        /\ ~HasDisc("vendor_mismatch")
               <=> ShouldMatch(invoice_data.vendor_name.s, po_data.vendor_name.s)
        /\ MatchVendor(invoice_data, po_data).matched
               = MatchVendor(po_data, invoice_data).matched
        /\ \A i \in 1..Len(invoice_data.line_items) : \A d \in OtherDescriptions :
               /\ DescriptionsMatch(invoice_data.line_items[i].description, d)
                      <=> ShouldMatch(invoice_data.line_items[i].description.s, d.s)
               /\ DescriptionsMatch(invoice_data.line_items[i].description, d)
                      = DescriptionsMatch(d, invoice_data.line_items[i].description)

\* C22: as above for the vendor names; two descriptions match exactly when neither
\* is the empty text and they are equal after lower-casing and trimming or their
\* token similarity is greater than 0.6 (exactly 0.6 is no match): an empty
\* description matches nothing, not even another empty description.  The verdict
\* is the same with the arguments exchanged.
FuzzyMatchRuleNonEmpty ==
    Matched3Way =>
        /\ ~HasDisc("vendor_mismatch")
               <=> ShouldMatch(invoice_data.vendor_name.s, po_data.vendor_name.s)
        /\ MatchVendor(invoice_data, po_data).matched
               = MatchVendor(po_data, invoice_data).matched
        /\ \A i \in 1..Len(invoice_data.line_items) : \A d \in OtherDescriptions :
               /\ DescriptionsMatch(invoice_data.line_items[i].description, d)
                      <=> /\ invoice_data.line_items[i].description.s # <<>>
                          /\ d.s # <<>>
                          /\ ShouldMatch(invoice_data.line_items[i].description.s, d.s)
               /\ DescriptionsMatch(invoice_data.line_items[i].description, d)
                      = DescriptionsMatch(d, invoice_data.line_items[i].description)

\* an invoice line and a PO line, both without description, were not matched
EmptyDescriptionsUnmatched ==
    /\ Matched3Way
    /\ Len(invoice_data.line_items) = 1
    /\ Len(po_data.line_items) = 1
    /\ invoice_data.line_items[1].description.s = <<>>
    /\ po_data.line_items[1].description.s = <<>>
    /\ po_data.line_items[1].unit_price > 0
    /\ match_result.line_matches[1].po_price = 0

\* the PO lines whose description matches the (non-empty) description of the
\* invoice line
PoCandidates(inv_line) ==
    { j \in 1..Len(po_data.line_items) :
        /\ inv_line.description.s # <<>>
        /\ ShouldMatch(inv_line.description.s, po_data.line_items[j].description.s) }

\* the candidate of highest similarity, the first of them in the PO's order
BestCandidate(inv_line) ==
    CHOOSE j \in PoCandidates(inv_line) :
        \A k \in PoCandidates(inv_line) :
            \/ RLt(Similarity(inv_line.description.s, po_data.line_items[k].description.s),
                   Similarity(inv_line.description.s, po_data.line_items[j].description.s))
            \/ /\ Similarity(inv_line.description.s, po_data.line_items[k].description.s)
                    = Similarity(inv_line.description.s, po_data.line_items[j].description.s)
               /\ j <= k

\* C25 as stated: when PO lines match an invoice line, the line's po_price and
\* price_variance come from the matching PO line of highest similarity, the first
\* in the PO's order among equals.
BestPoLineUsed ==
    Matched3Way =>
        \A i \in 1..Len(invoice_data.line_items) :
            PoCandidates(invoice_data.line_items[i]) # {} =>
                /\ match_result.line_matches[i].po_price
                       = po_data.line_items[BestCandidate(invoice_data.line_items[i])].unit_price
                /\ match_result.line_matches[i].price_variance
                       = Variance(invoice_data.line_items[i].unit_price,
                                  po_data.line_items[BestCandidate(
                                      invoice_data.line_items[i])].unit_price)

\* C25: when PO lines match an invoice line, the line's po_price and price_variance
\* come from the first matching PO line in the PO's order, whatever the similarity
\* of the matching lines after it.
FirstPoLineUsed ==
    Matched3Way =>
        \A i \in 1..Len(invoice_data.line_items) :
            \A j \in PoCandidates(invoice_data.line_items[i]) :
                (\A k \in PoCandidates(invoice_data.line_items[i]) : j <= k) =>
                    /\ match_result.line_matches[i].po_price
                           = po_data.line_items[j].unit_price
                    /\ match_result.line_matches[i].price_variance
                           = Variance(invoice_data.line_items[i].unit_price,
                                      po_data.line_items[j].unit_price)

\* the first of two matching PO lines was used although the second is the more
\* similar one
FirstUsedBeforeMoreSimilar ==
    /\ Matched3Way
    /\ Len(invoice_data.line_items) >= 1
    /\ PoCandidates(invoice_data.line_items[1]) = {1, 2}
    /\ RLt(Similarity(invoice_data.line_items[1].description.s,
                      po_data.line_items[1].description.s),
           Similarity(invoice_data.line_items[1].description.s,
                      po_data.line_items[2].description.s))
    /\ po_data.line_items[1].unit_price # po_data.line_items[2].unit_price
    /\ match_result.line_matches[1].po_price = po_data.line_items[1].unit_price

\* the GRN lines whose description matches the (non-empty) description of the
\* invoice line
GrnCandidates(inv_line) ==
    { j \in 1..Len(grn_data.line_items) :
        /\ inv_line.description.s # <<>>
        /\ ShouldMatch(inv_line.description.s, grn_data.line_items[j].description.s) }

\* C26: for an invoice line with a matching GRN line, quantity_variance is
\* |invoice_qty - grn_qty| / grn_qty of the first such GRN line (0 when grn_qty is 0),
\* whether or not a PO line matched; for an invoice line with a matching PO line,
\* price_variance is |invoice_price - po_price| / po_price (0 when po_price is 0).
\* The code looks for the GRN line only after it found a PO line.
VariancesFromMatchedLines ==
    Matched3Way =>
        \A i \in 1..Len(invoice_data.line_items) :
            /\ GrnCandidates(invoice_data.line_items[i]) # {} =>
                   match_result.line_matches[i].quantity_variance
                       = Variance(invoice_data.line_items[i].quantity,
                                  grn_data.line_items[
                                      First(GrnCandidates(invoice_data.line_items[i]))].quantity)
            /\ PoCandidates(invoice_data.line_items[i]) # {} =>
                   match_result.line_matches[i].price_variance
                       = Variance(invoice_data.line_items[i].unit_price,
                                  match_result.line_matches[i].po_price)

-----------------------------------------------------------------------------
(* Properties of detect_duplicate (SpecDup) *)

\* invoice number, vendor name, total amount and invoice date are all equal
SameFourFields(inv, hist) ==
    /\ PyEq(Get(inv.invoice_number), Get(hist.invoice_number))
    /\ PyEq(Get(inv.vendor_name), Get(hist.vendor_name))
    /\ PyEq(Get(inv.total_amount), Get(hist.total_amount))
    /\ PyEq(Get(inv.invoice_date), Get(hist.invoice_date))

\* the candidates the result lists for one historical record
CandidatesFor(hist) ==
    SelectSeq(duplicate_result.duplicates, LAMBDA d : d.invoice_id = Get(hist.id))

\* C2: for every historical record equal to the invoice in number, vendor, amount
\* and date, the result has is_duplicate true and exactly one candidate for that
\* record, of match_type exact_hash and confidence 1.0.  The code does not do this
\* when the two amounts are the same number written as an int and as a float.
IdenticalRecordIsExactHash ==
    duplicate_result.called =>
        \A j \in 1..Len(historical_invoices) :
            SameFourFields(invoice_data, historical_invoices[j]) =>
                /\ duplicate_result.is_duplicate
                /\ Len(CandidatesFor(historical_invoices[j])) = 1
                /\ CandidatesFor(historical_invoices[j])[1].match_type = "exact_hash"
                /\ CandidatesFor(historical_invoices[j])[1].confidence = R(1)

NumberSame(inv, hist) == PyEq(Get(inv.invoice_number), Get(hist.invoice_number))
VendorSame(inv, hist) == PyEq(Get(inv.vendor_name), Get(hist.vendor_name))
AmountSame(inv, hist) == PyEq(Get(inv.total_amount), Get(hist.total_amount))

\* the calendar day of a date of the requests, counted from 2025-01-01
DayNumber(date) == IF date = Str(sLateDate) THEN 59 ELSE 0

DaysApart(inv, hist) == Abs(DayNumber(inv.invoice_date) - DayNumber(hist.invoice_date))

\* 40 for the number, 20 for the vendor, 30 for the amount if the vendor matched,
\* 10 for a date within the window if the amount counted
GatedPoints(inv, hist) ==
    (IF NumberSame(inv, hist) THEN 40 ELSE 0)
    + (IF VendorSame(inv, hist) THEN 20 ELSE 0)
    + (IF VendorSame(inv, hist) /\ AmountSame(inv, hist) THEN 30 ELSE 0)
    + (IF VendorSame(inv, hist) /\ AmountSame(inv, hist) /\ DaysApart(inv, hist) <= 7
       THEN 10 ELSE 0)

FieldBased(hist) ==
    SelectSeq(CandidatesFor(hist), LAMBDA d : d.match_type = "field_based")

FarDateNotReported ==
    duplicate_result.called =>
        \A j \in 1..Len(historical_invoices) :
            ( /\ NumberSame(invoice_data, historical_invoices[j])
              /\ VendorSame(invoice_data, historical_invoices[j])
              /\ AmountSame(invoice_data, historical_invoices[j])
              /\ DaysApart(invoice_data, historical_invoices[j]) > 7 )
            => CandidatesFor(historical_invoices[j]) = <<>>

\* C13: the result lists at most 5 candidates, in order of confidence, highest
\* first.  The code lists every matching record, in the order of the history.
AtMostFiveByConfidence ==
    duplicate_result.called =>
        /\ Len(duplicate_result.duplicates) <= 5
        /\ \A i, j \in 1..Len(duplicate_result.duplicates) :
               i < j => RLe(duplicate_result.duplicates[j].confidence,
                            duplicate_result.duplicates[i].confidence)

\* a field in canonical form: text in lower case without surrounding blanks
Canonical(v) == IF v.t = "str" THEN Str(Strip(Lower(v.s))) ELSE v

CanonicallyEqual(inv, hist) ==
    /\ Canonical(Get(inv.invoice_number)) = Canonical(Get(hist.invoice_number))
    /\ Canonical(Get(inv.vendor_name)) = Canonical(Get(hist.vendor_name))
    /\ Canonical(Get(inv.total_amount)) = Canonical(Get(hist.total_amount))
    /\ Canonical(Get(inv.invoice_date)) = Canonical(Get(hist.invoice_date))

\* C14: the invoice and a historical record have the same hash exactly when their
\* number, vendor, amount and date are equal up to letter case and surrounding
\* blanks, and such a record is listed as exact_hash.  The code hashes the raw text
\* of the fields.
HashIsCanonical ==
    duplicate_result.called =>
        \A j \in 1..Len(historical_invoices) :
            /\ CanonicallyEqual(invoice_data, historical_invoices[j])
                   <=> (CalculateInvoiceHash(invoice_data)
                            = CalculateInvoiceHash(historical_invoices[j]))
            /\ CanonicallyEqual(invoice_data, historical_invoices[j])
                   => \E k \in 1..Len(CandidatesFor(historical_invoices[j])) :
                          CandidatesFor(historical_invoices[j])[k].match_type = "exact_hash"

-----------------------------------------------------------------------------
(* Properties of the two fraud scores (SpecFraud) *)

\* C1: a successful analyze_invoice returns anomaly_score in [0,1] and detect_fraud
\* returns fraud_score in [0,100], whatever combination of indicators fires.
ScoresBounded ==
    /\ (analysis.called /\ analysis.success) =>
           (RLe(R(0), analysis.anomaly_score) /\ RLe(analysis.anomaly_score, R(1)))
    /\ fraud_result.called =>
           (0 <= fraud_result.fraud_score /\ fraud_result.fraud_score <= 100)

\* detect_fraud collected more than 100 points and analyze_invoice scored above 0
PointsOverHundred ==
    /\ fraud_result.called
    /\ fraud_result.error = ""
    /\ fraud_result.fraud_score = 100
    /\ 30 * Cardinality({ i \in 1..Len(fraud_result.flags) :
                            fraud_result.flags[i] = "suspicious_vendor" }) > 100
    /\ analysis.called
    /\ analysis.success
    /\ RLt(R(0), analysis.anomaly_score)

Fired(c) ==
    <<c.duplicate_check.is_duplicate, c.price_analysis.has_anomaly,
      c.rush_payment_check.is_rush, c.round_amount_check.is_suspicious,
      c.vendor_analysis.is_new_vendor, c.pattern_analysis.has_anomaly>>

Confidences(c) ==
    <<c.duplicate_check.confidence, c.price_analysis.confidence,
      c.rush_payment_check.confidence, c.round_amount_check.confidence,
      c.vendor_analysis.confidence, c.pattern_analysis.confidence>>

\* duplicate, price-anomaly, rush-payment, round-amount, new-vendor, pattern-anomaly
FixedWeights ==
    <<Rat(35, 100), Rat(25, 100), Rat(15, 100), Rat(5, 100), Rat(10, 100), Rat(10, 100)>>

RECURSIVE SumFired(_, _)
SumFired(c, k) ==
    IF k = 0 THEN R(0)
    ELSE RAdd(SumFired(c, k - 1),
              IF Fired(c)[k] THEN RMul(FixedWeights[k], Confidences(c)[k]) ELSE R(0))

\* C5: anomaly_score is the sum over the indicators that fire of fixed weight x
\* confidence, capped at 1; when only the duplicate indicator fires (confidence
\* 0.85) the score is 0.2975 and the risk tier is 'low'.
ScoreIsWeightedSum ==
    (analysis.called /\ analysis.success) =>
        /\ analysis.anomaly_score = RMin(R(1), SumFired(analysis.checks, 6))
        /\ Fired(analysis.checks) = <<TRUE, FALSE, FALSE, FALSE, FALSE, FALSE>> =>
               /\ analysis.checks.duplicate_check.confidence = Rat(85, 100)
               /\ analysis.anomaly_score = Rat(2975, 10000)
               /\ analysis.risk_level = "low"

\* only the duplicate indicator fired
OnlyDuplicateFired ==
    /\ analysis.called
    /\ analysis.success
    /\ Fired(analysis.checks) = <<TRUE, FALSE, FALSE, FALSE, FALSE, FALSE>>
    /\ analysis.anomaly_score = Rat(2975, 10000)

\* C15: when the due date of the invoice cannot be parsed or its total is null,
\* analyze_invoice still returns a scored result, in which the check that could
\* not evaluate reports no signal with confidence 0.  The code returns an error
\* result: one try block encloses all the evaluators.
UnevaluableCheckIsNoSignal ==
    analysis.called =>
        /\ (CheckRushPaymentRaises(fds_invoice) \/ fds_invoice.total_amount = Null)
               => analysis.success
        /\ (analysis.success /\ CheckRushPaymentRaises(fds_invoice))
               => /\ ~analysis.checks.rush_payment_check.is_rush
                  /\ analysis.checks.rush_payment_check.confidence = R(0)

\* invoice number, vendor name, total amount or invoice date is absent or null
SomeFieldAbsent(inv) ==
    \E i \in 1..Len(CriticalFields) : Get(Field(inv, CriticalFields[i])) = Null

HasFlag(type) == \E i \in 1..Len(fraud_result.flags) : fraud_result.flags[i] = type

\* C16: detect_fraud flags missing_fields exactly when one of the four fields is
\* absent or null; an invoice whose total is absent or null gets a scored result
\* with the flag, and a total of 0 is not flagged.  The code flags every falsy
\* field (0, '') and returns an error result for a null total.
MissingFieldsIffAbsent ==
    fraud_result.called =>
        /\ Get(invoice_data.total_amount) = Null
               => (fraud_result.error = "" /\ HasFlag("missing_fields"))
        /\ fraud_result.error = ""
               => (HasFlag("missing_fields") <=> SomeFieldAbsent(invoice_data))

\* the minutes from now to the due date
MinutesUntilDue == (fds_invoice.due_date.n - clock) * 60 + fds_invoice.due_date.min

\* C17: is_rush is true exactly when the invoice has a due date and it is no more
\* than 3 days after now (so 2 days after gives true, 4 days after gives false);
\* without a due date is_rush is false with confidence 0.  The code compares
\* the whole days of the difference, rounded down, with 3.
RushIffWithinThreeDays ==
    (analysis.called /\ analysis.success) =>
        IF fds_invoice.due_date = Absent
        THEN /\ ~analysis.checks.rush_payment_check.is_rush
             /\ analysis.checks.rush_payment_check.confidence = R(0)
        ELSE analysis.checks.rush_payment_check.is_rush
                 <=> MinutesUntilDue <= 3 * HoursPerDay * 60

\* C18: is_round is true exactly when the total is greater than 1000 and divisible
\* by 100, and for an invoice with line items is_suspicious is true exactly when
\* is_round and every line item's amount is divisible by 10.  The code takes a
\* total of exactly 1000 as round.
RoundAboveThousand ==
    (analysis.called /\ analysis.success) =>
        /\ analysis.checks.round_amount_check.is_round
               <=> /\ fds_invoice.total_amount.n > 1000 * OneUnit
                   /\ fds_invoice.total_amount.n % (100 * OneUnit) = 0
        /\ fds_invoice.items # <<>>
               => ( analysis.checks.round_amount_check.is_suspicious
                        <=> /\ analysis.checks.round_amount_check.is_round
                            /\ \A i \in 1..Len(fds_invoice.items) :
                                   ItemAmount(fds_invoice.items[i]) % (10 * OneUnit) = 0 )

\* the minutes since midnight of a timestamp
MinuteOfDay(ts) == Hour(ts.n) * 60 + ts.min

SubmittedOnWeekend ==
    fds_invoice.created_at # Absent /\ Weekday(fds_invoice.created_at.n) \in {5, 6}

SubmittedAfterHours ==
    /\ fds_invoice.created_at # Absent
    /\ (MinuteOfDay(fds_invoice.created_at) < 6 * 60
        \/ MinuteOfDay(fds_invoice.created_at) > 22 * 60)

AllItemsGeneric ==
    /\ fds_invoice.items # <<>>
    /\ \A i \in 1..Len(fds_invoice.items) : IsGeneric(fds_invoice.items[i])

PatternsHeld == Count(SubmittedOnWeekend) + Count(SubmittedAfterHours) + Count(AllItemsGeneric)

\* C19: the pattern check counts submission on a weekend, submission before 06:00
\* or after 22:00, and all line items generic; has_anomaly is true exactly when
\* at least two hold, and the confidence is in [0,1] and 0 when fewer than two hold.
\* The code does not count a submission between 22:01 and 22:59 as after hours.
PatternCountsThreeSignals ==
    (analysis.called /\ analysis.success) =>
        /\ analysis.checks.pattern_analysis.anomaly_count = PatternsHeld
        /\ analysis.checks.pattern_analysis.has_anomaly <=> PatternsHeld >= 2
        /\ RLe(R(0), analysis.checks.pattern_analysis.confidence)
        /\ RLe(analysis.checks.pattern_analysis.confidence, R(1))
        /\ PatternsHeld < 2 => analysis.checks.pattern_analysis.confidence = R(0)

SeverityRank(severity) ==
    CASE severity = "high" -> 3
      [] severity = "medium" -> 2
      [] severity = "low" -> 1
      [] OTHER -> 0

\* C20: fraud_indicators is ordered by severity, highest first, and among equal
\* severities by confidence, highest first.  The code appends the indicators in a
\* fixed order of the evaluators and does not sort them.
IndicatorsBySeverity ==
    (analysis.called /\ analysis.success) =>
        \A i, j \in 1..Len(analysis.fraud_indicators) :
            i < j =>
                \/ SeverityRank(analysis.fraud_indicators[i].severity)
                       > SeverityRank(analysis.fraud_indicators[j].severity)
                \/ /\ analysis.fraud_indicators[i].severity
                          = analysis.fraud_indicators[j].severity
                   /\ RLe(analysis.fraud_indicators[j].confidence,
                          analysis.fraud_indicators[i].confidence)

\* the tier the thresholds 0.7, 0.5, 0.3 and 0.1 give a score
TierMatches(score, tier) ==
    /\ tier = "critical" <=> RLe(Rat(7, 10), score)
    /\ tier = "high" <=> (RLe(Rat(5, 10), score) /\ RLt(score, Rat(7, 10)))
    /\ tier = "medium" <=> (RLe(Rat(3, 10), score) /\ RLt(score, Rat(5, 10)))
    /\ tier = "low" <=> (RLe(Rat(1, 10), score) /\ RLt(score, Rat(3, 10)))
    /\ tier = "none" <=> RLt(score, Rat(1, 10))

TierRank(tier) ==
    CASE tier = "critical" -> 4
      [] tier = "high" -> 3
      [] tier = "medium" -> 2
      [] tier = "low" -> 1
      [] OTHER -> 0

\* the scores 0, 0.05, ..., 1, the four thresholds among them
SampleScores == { Rat(n, 20) : n \in 0..20 }

\* C21: the risk_level of a successful analyze_invoice is the tier of the returned
\* anomaly_score (>= 0.7 critical, >= 0.5 high, >= 0.3 medium, >= 0.1 low, else
\* none); _determine_risk_level gives every score that tier, and a score that is
\* not lower never gets a lower tier.
RiskTierFollowsScore ==
    /\ \A q \in SampleScores : TierMatches(q, DetermineRiskLevel(q))
    /\ (analysis.called /\ analysis.success) =>
           /\ TierMatches(analysis.anomaly_score, analysis.risk_level)
           /\ \A q \in SampleScores :
                  /\ RLe(q, analysis.anomaly_score)
                         => TierRank(DetermineRiskLevel(q)) <= TierRank(analysis.risk_level)
                  /\ RLe(analysis.anomaly_score, q)
                         => TierRank(analysis.risk_level) <= TierRank(DetermineRiskLevel(q))

\* an analysis whose score lies strictly inside the tier 'medium'
ScoreInsideMediumTier ==
    /\ analysis.called
    /\ analysis.success
    /\ analysis.risk_level = "medium"
    /\ RLt(Rat(3, 10), analysis.anomaly_score)
    /\ RLt(analysis.anomaly_score, Rat(5, 10))

\* the number of historical records of the invoice's vendor
SameVendorCount ==
    Cardinality({ j \in 1..Len(historical_data) :
                    historical_data[j].vendor = fds_invoice.vendor })

HasIndicator(type) ==
    \E i \in 1..Len(analysis.fraud_indicators) : analysis.fraud_indicators[i].type = type

\* C23: with no historical set, or fewer than 3 historical invoices of the
\* invoice's vendor, the price check reports has_anomaly false, confidence 0 and a
\* reason that says the data is missing or insufficient, and the analysis lists no
\* PRICE_ANOMALY indicator.
FewVendorRecordsNoPriceSignal ==
    (analysis.called /\ analysis.success /\ SameVendorCount < 3) =>
        /\ ~analysis.checks.price_analysis.has_anomaly
        /\ analysis.checks.price_analysis.confidence = R(0)
        /\ analysis.checks.price_analysis.reason
               \in {"No historical data for comparison", "Insufficient historical data"}
        /\ ~HasIndicator("PRICE_ANOMALY")

\* a history of four records, two of them of the invoice's vendor, was reported as
\* insufficient
MixedHistoryInsufficient ==
    /\ analysis.called
    /\ analysis.success
    /\ Len(historical_data) >= 3
    /\ SameVendorCount = 2
    /\ analysis.checks.price_analysis.reason = "Insufficient historical data"

\* C29: every historical record other than the invoice itself (a record with the
\* invoice's identifier) that carries the invoice's non-empty invoice number makes
\* is_duplicate true, also when neither the invoice nor the record has an _id; a
\* record that matches on the vendor only does not.  The code skips every record
\* whose _id equals the invoice's, and two missing _id are equal.
OnlySelfExcluded ==
    (analysis.called /\ analysis.success) =>
        /\ ( \E j \in 1..Len(historical_data) :
                 /\ ~( fds_invoice.id # Absent
                       /\ historical_data[j].id = fds_invoice.id )
                 /\ historical_data[j].invoice_number = fds_invoice.invoice_number
                 /\ Truthy(Get(fds_invoice.invoice_number)) )
           => analysis.checks.duplicate_check.is_duplicate
        /\ ( \A j \in 1..Len(historical_data) :
                 /\ historical_data[j].invoice_number # fds_invoice.invoice_number
                 /\ ( \/ ~IsNum(Get(fds_invoice.total_amount))
                      \/ ~AmountsClose(historical_data[j].total_amount.n,
                                       fds_invoice.total_amount.n) ) )
           => ~analysis.checks.duplicate_check.is_duplicate

-----------------------------------------------------------------------------
(* Properties of the full-process route (SpecPipe) *)

\* C4: whenever the duplicate check of the pipeline reports is_duplicate, the final
\* recommendation is 'reject', whatever the fraud score and the three-way match
\* status.  The code does not do this when the match status is 'exception'.
DuplicateAlwaysRejects ==
    ( /\ full_result.called
      /\ full_result.http = 200
      /\ full_result.duplicate_check.is_duplicate )
    => full_result.recommendation = "reject"

\* C30: when OCR succeeds, invoice_full_process answers 200 with a recommendation
\* among auto_approve, manual_review and reject, whichever optional inputs are
\* omitted, and a stage whose inputs are omitted is reported as null.  The code
\* answers 500 when po_data/grn_data or historical_invoices is omitted: the
\* recommendation block calls .get on the null stage.
PipelineCompletes ==
    (full_result.called /\ image = "ok") =>
        /\ full_result.http = 200
        /\ full_result.recommendation \in {"auto_approve", "manual_review", "reject"}
        /\ ~(po_data.present /\ grn_data.present) => ~full_result.matching.called
        /\ historical_invoices = <<>> => ~full_result.duplicate_check.called

-----------------------------------------------------------------------------
(* Properties of the whole service (Spec) *)

\* C6: for a fixed clock and a fixed request, a repeated analyze_invoice,
\* detect_duplicate or perform_three_way_match returns the result the earlier call
\* returned, whatever other operations (other invoices' analyses, train_model,
\* predict_fraud) ran in between.
RepeatedCallSameResult ==
    [][ /\ (analysis.called /\ analysis'.called) => analysis' = analysis
        /\ (duplicate_result.called /\ duplicate_result'.called)
               => duplicate_result' = duplicate_result
        /\ (match_result.called /\ match_result'.called) => match_result' = match_result
      ]_vars

\* analyze_invoice has just been repeated on a service whose models were trained
\* and that analysed another invoice; the other two operations ran as well
RepeatedAfterTraining ==
    /\ last_call = Call("analyze_invoice", TRUE)
    /\ analysis.success
    /\ fds.models_trained
    /\ other_analysis.called
    /\ predict_result.called
    /\ duplicate_result.called
    /\ match_result.called

\* the step is a predict_fraud call
PredictStep == last_call'.op = "predict_fraud" /\ predict_result'.called

\* the step is a train_model call
TrainStep == last_call'.op = "train_model" /\ train_result'.called

\* C27: a predict_fraud call on a service whose models are not trained fails with
\* 'Model not trained'; models_trained is false until a train_model call succeeds,
\* becomes true only in a successful train_model call and never becomes false
\* again; a train_model call that fails leaves the service as it was.
TrainingGatesPrediction ==
    [][ /\ (PredictStep /\ ~fds.models_trained)
               => (~predict_result'.success /\ predict_result'.error = "Model not trained")
        /\ fds.models_trained => fds'.models_trained
        /\ (~fds.models_trained /\ fds'.models_trained)
               => (TrainStep /\ train_result'.success)
        /\ (TrainStep /\ ~train_result'.success) => fds' = fds
      ]_vars

\* the models are trained, predict_fraud has succeeded, and the last call was a
\* train_model call that failed
FailedTrainingAfterSuccess ==
    /\ fds.models_trained
    /\ predict_result.called
    /\ predict_result.success
    /\ last_call.op = "train_model"
    /\ ~train_result.success

-----------------------------------------------------------------------------
(* Properties of batch_analyze (SpecBatch) *)

\* the analysis batch_analyze makes of the i-th invoice of the batch
BatchAnalysisOf(i) ==
    AnalyzeInvoice(batch_invoices[i], historical_data, NoVendor, clock, fds)

\* the entries of analyzed whose risk level is high or critical
HighOrCritical(analyzed) ==
    SelectSeq(analyzed, LAMBDA e : e.risk_level \in {"high", "critical"})

\* C28: batch_analyze returns a result for every batch; analyzed and failed
\* together count total_invoices, the length of the batch; high_risk holds exactly
\* the analyzed invoices whose risk level is high or critical, in their order; an
\* invoice is analyzed exactly when its own analysis succeeds, whatever happened to
\* the invoices before it.
BatchAccountsForEveryInvoice ==
    batch_result.called =>
        /\ batch_result.success
        /\ batch_result.total_invoices = Len(batch_invoices)
        /\ Len(batch_result.analyzed) + Len(batch_result.failed)
               = batch_result.total_invoices
        /\ Len(batch_result.high_risk) = Len(HighOrCritical(batch_result.analyzed))
        /\ \A k \in 1..Len(batch_result.high_risk) :
               /\ batch_result.high_risk[k].invoice_id
                      = HighOrCritical(batch_result.analyzed)[k].invoice_id
               /\ batch_result.high_risk[k].risk_level
                      = HighOrCritical(batch_result.analyzed)[k].risk_level
        /\ Len(batch_result.analyzed)
               = Cardinality({ i \in 1..Len(batch_invoices) : BatchAnalysisOf(i).success })
        /\ \A i \in 1..Len(batch_invoices) :
               BatchAnalysisOf(i).success =>
                   \E k \in 1..Len(batch_result.analyzed) :
                       /\ batch_result.analyzed[k].invoice_id = BatchAnalysisOf(i).invoice_id
                       /\ batch_result.analyzed[k].risk_level = BatchAnalysisOf(i).risk_level

\* a batch whose first invoice failed and whose last invoice was analyzed and
\* reported as high risk
FailureThenHighRisk ==
    /\ batch_result.called
    /\ Len(batch_invoices) = 3
    /\ ~BatchAnalysisOf(1).success
    /\ BatchAnalysisOf(3).success
    /\ Len(batch_result.failed) >= 1
    /\ Len(batch_result.high_risk) >= 1
    /\ Len(batch_result.analyzed) > Len(batch_result.high_risk)

-----------------------------------------------------------------------------
(* Properties of the operations that only read (SpecShared) *)

ReadOnlyOps ==
    {"analyze_invoice", "batch_analyze", "detect_duplicate", "detect_fraud",
     "perform_three_way_match"}

\* C24: analyze_invoice, batch_analyze, detect_duplicate, detect_fraud and
\* perform_three_way_match leave the records they are given and the state of both
\* services (weights, thresholds, vendor_stats_cache, models_trained) as they were,
\* and what each returns is what it returns on the services as constructed,
\* whatever calls came before it.
ReadOnlyOpsKeepState ==
    [][ last_call'.op \in ReadOnlyOps =>
          /\ requests' = requests
          /\ ims' = ims
          /\ fds' = fds
          /\ analysis'.called =>
                 analysis' = AnalyzeInvoice(fds_invoice, historical_data, vendor_data,
                                            clock, FdsInit)
          /\ batch_result'.called =>
                 batch_result' = BatchAnalyze(batch_invoices, historical_data, clock,
                                              FdsInit)
          /\ duplicate_result'.called =>
                 duplicate_result' = DetectDuplicate(invoice_data, historical_invoices,
                                                     ImsInit)
          /\ fraud_result'.called => fraud_result' = DetectFraud(invoice_data, ImsInit)
          /\ match_result'.called =>
                 match_result' = PerformThreeWayMatch(invoice_data, po_data, grn_data,
                                                      tolerance)
      ]_vars

\* every one of the five has been called, the last of them on a service that
\* train_model had changed in between
AllCalledAroundTraining ==
    /\ fds.models_trained
    /\ last_call.op \in ReadOnlyOps
    /\ last_call.again
    /\ analysis.called
    /\ batch_result.called
    /\ duplicate_result.called
    /\ fraud_result.called
    /\ match_result.called

=============================================================================
